---- MODULE Spec2Model ----
(***************************************************************************)
(* Model of test_imports: the import interception engine.                  *)
(*   states.py  BootstrapState / BootstrapStates  (state + stack)          *)
(*   worker.py  TestImportsWorker                 (policy + session handle)*)
(*   utils.py   normalize_name, raise_exception   (matcher, failure)       *)
(* Qualified names are sequences of one-character strings, so that         *)
(* rpartition(".") and regular-expression matching are computed, not       *)
(* assumed.  sys.modules is a function whose DOMAIN is the set of keys.    *)
(* Module objects are handles 1..used with mutable fields.                 *)
(***************************************************************************)
EXTENDS Integers, Sequences, FiniteSets, TLC

\* ------------------------------------------------------------------ bounds
MaxHandles == 7    \* module objects that may ever be created
MaxOps == 3        \* operations performed after construction
MaxCalls == 5      \* direct calls on the states
MaxLen == 3        \* characters of a name specification given to the matcher
MaxDepth == 9      \* nesting depth of hook invocations inside one call

\* ------------------------------------------------------------------ names
DOT == "."
STAR == "*"
ANY == ".*"        \* the regex fragment that replaces the wildcard token
NL == "\n"

n_p == <<"p">>
n_py == <<"p", ".", "y">>
n_px == <<"p", ".", "x">>
n_m == <<"m">>
n_mx == <<"m", ".", "x">>
n_x == <<"x">>
n_t == <<"t">>
n_y == <<"y">>
n_star == <<"*">>
n_xs == <<"x", "*">>
n_hpkg == <<"h">>
n_hy == <<"h", ".", "y">>
n_ht == <<"h", ".", "t">>
n_hs == <<"h", ".", "*">>
n_ps == <<"p", ".", "*">>
n_pyt == <<"p", ".", "y", ".", "t">>

\* The modules that the finders of the resolution pipeline can locate, and
\* which of them are packages (have a __path__).
OnDisk == {n_p, n_py, n_m, n_hpkg}
Packages == {n_p, n_hpkg}

\* Attributes that a module body defines when it is executed.
StaticMembers(origin) == IF origin = n_p THEN {n_t} ELSE {}

\* str.rpartition(".") : index of the last separator, 0 when there is none.
LastDot(n) ==
  LET S == {i \in 1..Len(n) : n[i] = DOT}
  IN IF S = {} THEN 0 ELSE CHOOSE i \in S : \A j \in S : j <= i

\* name.rpartition(".")[0]
ParentName(n) == IF LastDot(n) = 0 THEN <<>> ELSE SubSeq(n, 1, LastDot(n) - 1)

\* name.rpartition(".")[-1]
LeafName(n) == SubSeq(n, LastDot(n) + 1, Len(n))

\* f"{a}.{b}"
Join(a, b) == a \o <<DOT>> \o b

\* the part of a dotted name before its first separator
FrontName(n) ==
  LET S == {i \in 1..Len(n) : n[i] = DOT}
  IN IF S = {} THEN n ELSE SubSeq(n, 1, (CHOOSE i \in S : \A j \in S : i <= j) - 1)

\* ---------------------------------------------------------------- matcher
\* A compiled pattern: a sequence of tokens (a literal character or ANY)
\* and whether it carries the end anchor "$".
RECURSIVE RegexTail(_, _, _, _)
RegexTail(p, i, s, j) ==
  IF i > Len(p.toks)
  THEN IF p.anch
       THEN j = Len(s) + 1 \/ (j = Len(s) /\ s[j] = NL)
       ELSE TRUE
  ELSE IF p.toks[i] = ANY
       THEN \E k \in j..(Len(s) + 1) :
              /\ \A q \in j..(k - 1) : s[q] # NL
              /\ RegexTail(p, i + 1, s, k)
       ELSE /\ j <= Len(s)
            /\ s[j] = p.toks[i]
            /\ RegexTail(p, i + 1, s, j + 1)

\* regex.match(name): anchored at the start of the name.
RegexMatch(p, s) == RegexTail(p, 1, s, 1)

\* ".*".join(re.escape(s) for s in name.split("*")) + "$"
WildcardToRegex(s) ==
  [toks |-> [i \in 1..Len(s) |-> IF s[i] = STAR THEN ANY ELSE s[i]], anch |-> TRUE]

Str(s) == [kind |-> "str", s |-> s]

\* Argument values: None, and a tuple / list / dict given as its items.
None == [kind |-> "none"]
List(items) == [kind |-> "list", items |-> items]
\* a value that is neither a str nor a module, such as object()
Obj == [kind |-> "object"]

\* bool(x) of an argument value
Truthy(x) ==
  CASE x.kind = "none" -> FALSE
    [] x.kind = "list" -> x.items # <<>>
    [] x.kind = "str" -> x.s # <<>>

\* the items that iterating over an argument value gives: a str gives its
\* characters, each of them a str
Iterate(x) ==
  CASE x.kind = "none" -> <<>>
    [] x.kind = "list" -> x.items
    [] x.kind = "str" -> [i \in 1..Len(x.s) |-> Str(<<x.s[i]>>)]

\* ------------------------------------------------------------------ state
Workers == {1, 2}

VARIABLES
  sys_modules,      \* sys.modules: qualified name -> module handle
  mods,             \* module objects: handle -> [name, specname, origin, attr]
  find_and_load,    \* importlib._bootstrap._find_and_load: 0 original, w wrapper of w
  handle_fromlist,  \* importlib._bootstrap._handle_fromlist, likewise
  st,               \* the BootstrapState created by each worker's last patch()
  states_list,      \* BootstrapStates._states
  w_state,          \* worker -> TRUE iff self._state is not None
  cfg,              \* worker -> its normalized rule sets and flags
  pre,              \* history: registry and hooks just before each activation
  dirty,            \* history: a hook was invoked since the worker's activation
  solo,             \* history: no other session was active during the worker's
  last,             \* history: the operation just performed and its outcome
  nops,             \* number of operations performed
  scope,            \* the workers whose with-block is being executed, outermost first
  raised,           \* the exception that is propagating out of a with-block body
  args,             \* history: the arguments each worker was constructed with
  probe             \* a name specification, its compiled pattern and a name tried on it

\* what the operations on imports and on session handles leave alone
ext == <<scope, raised, args, probe>>

vars == <<sys_modules, mods, find_and_load, handle_fromlist, st, states_list,
          w_state, cfg, pre, dirty, solo, last, nops, scope, raised, args, probe>>

\* ------------------------------------------------------------ dictionaries
DictSet(d, k, v) == [x \in (DOMAIN d) \cup {k} |-> IF x = k THEN v ELSE d[x]]
DictDel(d, k) == [x \in (DOMAIN d) \ {k} |-> d[x]]
EmptyDict == [x \in {} |-> 0]

\* -------------------------------------------------------------- exceptions
\* type: the exception class; by: the worker whose fail_exception it is;
\* msg: the message a class was instantiated with; name: the .name attribute
\* of a ModuleNotFoundError raised by the import machinery itself.
Exc(t) == [type |-> t, by |-> 0, msg |-> <<>>, name |-> <<>>]
NoExc == Exc("none")
Ok(w) == w.exc.type = "none"
Raise(w, e) == [w EXCEPT !.exc = e]
Return(w, v) == [w EXCEPT !.ret = v]

UNDEF == 0          \* worker._UNDEF: "there is no such attribute / entry"
NONMODULE == 0 - 1      \* an attribute value that is not a module

\* getattr(module, a, _UNDEF)
GetAttr(w, h, a) == IF a \in DOMAIN w.mods[h].attr THEN w.mods[h].attr[a] ELSE UNDEF
\* setattr(module, a, v)
SetAttr(w, h, a, v) == [w EXCEPT !.mods[h].attr = DictSet(@, a, v)]
\* delattr(module, a)
DelAttr(w, h, a) ==
  IF a \in DOMAIN w.mods[h].attr
  THEN [w EXCEPT !.mods[h].attr = DictDel(@, a)]
  ELSE Raise(w, Exc("AttributeError"))

\* ModuleSpec.parent: the name itself for a package, else its parent's name
SpecParent(m) == IF m.origin \in Packages THEN m.specname ELSE ParentName(m.specname)

\* ------------------------------------------------------------- the policy
\* TestImportsWorker.is_fail_match
is_fail_match(k, name) ==
  \E i \in 1..Len(cfg[k].fail_modules) : RegexMatch(cfg[k].fail_modules[i], name)

\* Mutant: the substitution sources are left out of the hide set.
HideRegexes_no_sources(c) == c.fail_modules \o c.hide_modules

\* TestImportsWorker.patch: hide_modules = fail + substitution sources + hide
HideRegexes(c) ==
  c.fail_modules \o [i \in 1..Len(c.sub_modules) |-> c.sub_modules[i].pat] \o c.hide_modules

\* BootstrapState._get_matching_modules
get_matching_modules(regexes, sm) ==
  {n \in DOMAIN sm : \E i \in 1..Len(regexes) : RegexMatch(regexes[i], n)}

\* Mutant: the last matching entry wins.
get_sub_match_last(w, k, name) ==
  LET S == {i \in 1..Len(cfg[k].sub_modules) : RegexMatch(cfg[k].sub_modules[i].pat, name)}
  IN IF S = {} THEN [ok |-> TRUE, name |-> name]
     ELSE LET sub == cfg[k].sub_modules[CHOOSE i \in S : \A j \in S : j <= i].sub
          IN IF sub.kind = "str" THEN [ok |-> TRUE, name |-> sub.s]
             ELSE IF sub.kind = "module" THEN [ok |-> TRUE, name |-> w.mods[sub.h].name]
             ELSE [ok |-> FALSE, name |-> name]

\* TestImportsWorker.get_sub_match: first matching entry in iteration order
get_sub_match(w, k, name) ==
  LET S == {i \in 1..Len(cfg[k].sub_modules) : RegexMatch(cfg[k].sub_modules[i].pat, name)}
  IN IF S = {} THEN [ok |-> TRUE, name |-> name]
     ELSE LET sub == cfg[k].sub_modules[CHOOSE i \in S : \A j \in S : i <= j].sub
          IN IF sub.kind = "str" THEN [ok |-> TRUE, name |-> sub.s]
             ELSE IF sub.kind = "module" THEN [ok |-> TRUE, name |-> w.mods[sub.h].name]
             ELSE [ok |-> FALSE, name |-> name]

\* Mutant: a configured class is instantiated without the message.
raise_exception_no_message(w, k, name) ==
  Raise(w, [type |-> "Injected", by |-> k, msg |-> <<>>, name |-> <<>>])

\* utils.raise_exception(self.fail_exception, name)
raise_exception(w, k, name) ==
  Raise(w, [type |-> "Injected", by |-> k,
            msg |-> IF cfg[k].fail_exception = "instance" THEN <<>> ELSE name,
            name |-> <<>>])

\* ------------------------------------------------- the resolution pipeline
\* _load_unlocked + the setattr on the parent in _find_and_load_unlocked
Load(w, name, origin) ==
  IF Len(w.mods) >= MaxHandles THEN Raise(w, Exc("Exhausted"))
  ELSE LET h == Len(w.mods) + 1
           m == [name |-> name, specname |-> name, origin |-> origin,
                 attr |-> [a \in StaticMembers(origin) |-> NONMODULE]]
           w1 == [w EXCEPT !.mods = Append(@, m), !.sm = DictSet(@, name, h)]
           par == ParentName(name)
       IN IF par = <<>> THEN Return(w1, h)
          ELSE Return(SetAttr(w1, w1.sm[par], LeafName(name), h), h)

\* history: one entry per invocation of a hook slot's function
LogFAL(h, name) ==
  [f |-> "find_and_load", h |-> h, name |-> name, module |-> 0,
   fromlist |-> <<>>, recursive |-> FALSE]
LogHF(h, module, fromlist, recursive) ==
  [f |-> "handle_fromlist", h |-> h, name |-> <<>>, module |-> module,
   fromlist |-> fromlist, recursive |-> recursive]

\* The calls a function of the pipeline makes of another one: f says which
\* function is called and with what, d is the call depth that is left.
RECURSIVE Call(_, _, _)

\* whatever function h stands for (0: the original, k: worker k's wrapper),
\* called as _find_and_load(name, import_)
CallFindAndLoad(h, name) == [fn |-> "find_and_load", h |-> h, name |-> name]
\* the same, called as _handle_fromlist(module, fromlist, import_, recursive=...)
CallHandleFromlist(h, module, fromlist, recursive) ==
  [fn |-> "handle_fromlist", h |-> h, module |-> module, fromlist |-> fromlist,
   recursive |-> recursive]
\* import_(name)
CallImport(name) == [fn |-> "import", name |-> name]
\* self.wrapper_find_and_load(name) of worker k
CallWrapper(k, name) == [fn |-> "wrapper_find_and_load", h |-> k, name |-> name]

\* builtins.__import__(name) with no fromlist, as the machinery calls it
Import(w, name, d) ==
  LET w1 == IF name \in DOMAIN w.sm THEN w
            ELSE Call(w, CallFindAndLoad(find_and_load, name), d)
      front == FrontName(name)
  IN IF ~Ok(w1) \/ front = name \/ front \in DOMAIN w1.sm THEN w1
     ELSE Call(w1, CallFindAndLoad(find_and_load, front), d)

\* importlib._bootstrap._find_and_load as captured before any patch
OrigFindAndLoad(w, name, d) ==
  IF name \in DOMAIN w.sm THEN Return(w, w.sm[name])
  ELSE LET par == ParentName(name) IN
    IF par = <<>>
    THEN IF name \in OnDisk THEN Load(w, name, name)
         ELSE Raise(w, [Exc("ModuleNotFoundError") EXCEPT !.name = name])
    ELSE LET w1 == IF par \in DOMAIN w.sm THEN w ELSE Call(w, CallImport(par), d) IN
      IF ~Ok(w1) THEN w1
      ELSE IF name \in DOMAIN w1.sm THEN Return(w1, w1.sm[name])
      ELSE IF par \notin DOMAIN w1.sm THEN Raise(w1, Exc("KeyError"))
      ELSE LET pm == w1.mods[w1.sm[par]]
               origin == Join(pm.origin, LeafName(name))
           IN IF pm.origin \in Packages /\ origin \in OnDisk
              THEN Load(w1, name, origin)
              ELSE Raise(w1, [Exc("ModuleNotFoundError") EXCEPT !.name = name])

\* Mutant: every name counts as stashed.
is_hidden_always(k, module_name) == TRUE

\* BootstrapState.is_hidden, of the state worker k is bound to
is_hidden(k, module_name) == module_name \in DOMAIN st[k].hidden

\* What the worker prints: one line per _debug call while self.debug is
\* set. at is history: how many hook invocations had been made by then.
DebugLine(w, k, f, name, h, fromlist, recursive) ==
  [f |-> f, w |-> k, name |-> name, module |-> h, fromlist |-> fromlist,
   recursive |-> recursive, at |-> Len(w.log)]

\* Mutant: the worker prints whatever the flag says.
debug_always(w, k, line) == [w EXCEPT !.out = Append(@, line)]

\* TestImportsWorker._debug
debug(w, k, line) == IF cfg[k].debug THEN [w EXCEPT !.out = Append(@, line)] ELSE w

\* Mutant: the attribute found on the parent is forgotten.
get_attrib_forgets(w, k, name, d) ==
  IF ~w_state[k] THEN Raise(w, Exc("TestImportsUnpatchedError"))
  ELSE IF ParentName(name) = <<>> THEN Return(w, UNDEF)
  ELSE LET w1 == Call(w, CallFindAndLoad(st[k].original_find_and_load, ParentName(name)), d)
       IN IF ~Ok(w1) THEN w1 ELSE Return(w1, UNDEF)

\* TestImportsWorker.get_attrib
get_attrib(w, k, name, d) ==
  IF ~w_state[k] THEN Raise(w, Exc("TestImportsUnpatchedError"))
  ELSE IF ParentName(name) = <<>> THEN Return(w, UNDEF)
  ELSE LET w1 == Call(w, CallFindAndLoad(st[k].original_find_and_load, ParentName(name)), d)
       IN IF ~Ok(w1) THEN w1 ELSE Return(w1, GetAttr(w1, w1.ret, LeafName(name)))

\* Mutant: the module is not put into sys.modules under the requested name.
fake_loaded_module_data_no_insert(w, k, lm, name, attrib_value, d) ==
  IF w.mods[lm].name = name THEN w
  ELSE
    LET sp == SpecParent(w.mods[lm])
        module_name == LeafName(w.mods[lm].name)
        w2 == IF sp = <<>> THEN w
              ELSE IF sp \notin DOMAIN w.sm THEN Raise(w, Exc("KeyError"))
              ELSE IF attrib_value = UNDEF THEN DelAttr(w, w.sm[sp], module_name)
              ELSE SetAttr(w, w.sm[sp], module_name, attrib_value)
    IN IF ~Ok(w2) THEN w2
       ELSE [w2 EXCEPT !.mods[lm].name = LeafName(name), !.mods[lm].specname = name]

\* TestImportsWorker.fake_loaded_module_data
fake_loaded_module_data(w, k, lm, name, attrib_value, d) ==
  LET w1 == [w EXCEPT !.sm = DictSet(@, name, lm)] IN
  IF w1.mods[lm].name = name THEN w1
  ELSE
    LET sp == SpecParent(w1.mods[lm])
        module_name == LeafName(w1.mods[lm].name)
        w2 == IF sp = <<>> THEN w1
              ELSE IF sp \notin DOMAIN w1.sm THEN Raise(w1, Exc("KeyError"))
              ELSE IF attrib_value = UNDEF THEN DelAttr(w1, w1.sm[sp], module_name)
              ELSE SetAttr(w1, w1.sm[sp], module_name, attrib_value)
        fake_parent_name == ParentName(name)
        fake_module_name == LeafName(name)
    IN IF ~Ok(w2) THEN w2
       ELSE LET w3 == IF fake_parent_name = <<>> THEN w2
                      ELSE LET wr == Call(w2, CallWrapper(k, fake_parent_name), d)
                           IN IF ~Ok(wr) THEN wr
                              ELSE SetAttr(wr, wr.ret, fake_module_name, lm)
            IN IF ~Ok(w3) THEN w3
               ELSE [w3 EXCEPT !.mods[lm].name = fake_module_name,
                               !.mods[lm].specname = name]

\* TestImportsWorker.wrapper_find_and_load
wrapper_find_and_load(w0, k, name, d) ==
  IF d = 0 THEN Raise(w0, Exc("RecursionError"))
  ELSE LET w == debug(w0, k, DebugLine(w0, k, "wrapper_find_and_load", name, 0, <<>>, FALSE))
  IN
  IF ~w_state[k] THEN Raise(w, Exc("TestImportsUnpatchedError"))
  ELSE IF is_fail_match(k, name) THEN raise_exception(w, k, name)
  ELSE LET sub == get_sub_match(w, k, name) IN
    IF ~sub.ok THEN Raise(w, Exc("TypeError"))
    ELSE
      LET name_to_load == sub.name
          wa == IF name # name_to_load THEN get_attrib(w, k, name_to_load, d - 1)
                ELSE Return(w, UNDEF)
      IN IF ~Ok(wa) THEN wa
         ELSE
           LET attrib_value == wa.ret
               modules_value == IF name_to_load \in DOMAIN wa.sm
                                THEN wa.sm[name_to_load] ELSE UNDEF
               pop == cfg[k].sub_module_reload \/ is_hidden(k, name_to_load)
               existing_module == IF pop THEN modules_value ELSE UNDEF
               wb == IF pop THEN [wa EXCEPT !.sm = DictDel(@, name_to_load)] ELSE wa
               wc == Call(wb, CallFindAndLoad(st[k].original_find_and_load, name_to_load),
                          d - 1)
           IN IF ~Ok(wc) THEN wc
              ELSE
                LET result == wc.ret
                    wd == IF existing_module # UNDEF
                          THEN [wc EXCEPT !.sm = DictSet(@, name_to_load, existing_module)]
                          ELSE wc
                    we == IF modules_value = UNDEF
                          THEN [wd EXCEPT !.sm = DictDel(@, name_to_load)]
                          ELSE [wd EXCEPT !.sm = DictSet(@, name_to_load, modules_value)]
                    wf == fake_loaded_module_data(we, k, result, name, attrib_value, d - 1)
                IN IF ~Ok(wf) THEN wf ELSE Return(wf, result)

\* A call of whatever is installed in a hook slot (0: the original)
Hook(w, h, name, d) ==
  LET wl == [w EXCEPT !.log = Append(@, LogFAL(h, name))] IN
  IF d = 0 THEN Raise(wl, Exc("RecursionError"))
  ELSE IF h = 0 THEN OrigFindAndLoad(wl, name, d - 1)
  ELSE wrapper_find_and_load(wl, h, name, d)

\* ------------------------------------------------------------- from-lists
n_h == <<"_", "h">>
Alphabet == <<".", "_", "h", "m", "p", "t", "x", "y">>   \* in code-point order
Rank(c) == CHOOSE i \in 1..Len(Alphabet) : Alphabet[i] = c

\* a < b for str
RECURSIVE StrLess(_, _)
StrLess(a, b) ==
  IF b = <<>> THEN FALSE
  ELSE IF a = <<>> THEN TRUE
  ELSE IF a[1] # b[1] THEN Rank(a[1]) < Rank(b[1])
  ELSE StrLess(Tail(a), Tail(b))

\* sorted(S) for a set of str
RECURSIVE Sorted(_)
Sorted(S) ==
  IF S = {} THEN <<>>
  ELSE LET least == CHOOSE a \in S : \A b \in S \ {a} : StrLess(a, b)
       IN <<least>> \o Sorted(S \ {least})

\* module.__all__ of the modules on disk (<<>>: the module defines none)
HasAll(origin) == origin \in {n_m, n_hpkg}
DunderAll(origin) ==
  IF origin = n_m THEN <<n_x, n_t>>
  ELSE IF origin = n_hpkg THEN <<n_y, n_t>>
  ELSE <<>>

\* Mutant: the wildcard takes every attribute name when there is no export
\* list.
PublicDir_all(m) == Sorted(DOMAIN m.attr)

\* [obj_name for obj_name in dir(module) if not obj_name.startswith("_")]
PublicDir(m) == SelectSeq(Sorted(DOMAIN m.attr), LAMBDA a : a[1] # "_")

\* TestImportsWorker.expand_fromlist
RECURSIVE expand_fromlist(_, _)
expand_fromlist(m, fromlist) ==
  IF fromlist = <<>> THEN <<>>
  ELSE LET name == Head(fromlist)
           items == IF name = n_star
                    THEN IF HasAll(m.origin) THEN DunderAll(m.origin) ELSE PublicDir(m)
                    ELSE <<name>>
       IN [i \in 1..Len(items) |-> Join(m.name, items[i])]
          \o expand_fromlist(m, Tail(fromlist))

\* Mutant: wildcard entries are not expanded.
get_fromlist_matches_no_expansion(k, m, fromlist) ==
  SelectSeq([i \in 1..Len(fromlist) |-> Join(m.name, fromlist[i])],
            LAMBDA n : is_fail_match(k, n))

\* Mutant: the matching candidates come in reverse order.
get_fromlist_matches_reversed(k, m, fromlist) ==
  LET matches == SelectSeq(expand_fromlist(m, fromlist), LAMBDA n : is_fail_match(k, n))
  IN [i \in 1..Len(matches) |-> matches[Len(matches) + 1 - i]]

\* TestImportsWorker.get_fromlist_matches
get_fromlist_matches(k, m, fromlist) ==
  SelectSeq(expand_fromlist(m, fromlist), LAMBDA n : is_fail_match(k, n))

RECURSIVE OrigHandleFromlist(_, _, _, _, _)

\* importlib._bootstrap._handle_fromlist as captured before any patch
OrigHandleFromlist(w, h, fromlist, recursive, d) ==
  IF fromlist = <<>> THEN Return(w, h)
  ELSE
    LET x == Head(fromlist)
        m == w.mods[h]
        from_name == Join(m.name, x)
        w1 == IF x = n_star
              THEN IF ~recursive /\ HasAll(m.origin)
                   THEN Call(w, CallHandleFromlist(handle_fromlist, h,
                                                   DunderAll(m.origin), TRUE), d)
                   ELSE w
              ELSE IF x \in DOMAIN m.attr THEN w
              ELSE LET wi == Call(w, CallImport(from_name), d)
                   IN IF wi.exc.type = "ModuleNotFoundError" /\ wi.exc.name = from_name
                      THEN Raise(wi, NoExc)
                      ELSE wi
    IN IF ~Ok(w1) THEN w1 ELSE OrigHandleFromlist(w1, h, Tail(fromlist), recursive, d)

\* TestImportsWorker.wrapper_handle_fromlist
wrapper_handle_fromlist(w0, k, h, fromlist, recursive, d) ==
  LET w == debug(w0, k, DebugLine(w0, k, "wrapper_handle_fromlist", <<>>, h, fromlist,
                                  recursive))
  IN
  IF ~w_state[k] THEN Raise(w, Exc("TestImportsUnpatchedError"))
  ELSE LET matches == get_fromlist_matches(k, w.mods[h], fromlist)
       IN IF matches # <<>> THEN raise_exception(w, k, Head(matches))
          ELSE Call(w, CallHandleFromlist(st[k].original_handle_fromlist, h, fromlist,
                                          recursive), d - 1)

HookHF(w, hk, h, fromlist, recursive, d) ==
  LET wl == [w EXCEPT !.log = Append(@, LogHF(hk, h, fromlist, recursive))] IN
  IF d = 0 THEN Raise(wl, Exc("RecursionError"))
  ELSE IF hk = 0 THEN OrigHandleFromlist(wl, h, fromlist, recursive, d - 1)
  ELSE wrapper_handle_fromlist(wl, hk, h, fromlist, recursive, d)

Call(w, f, d) ==
  CASE f.fn = "find_and_load" -> Hook(w, f.h, f.name, d)
    [] f.fn = "handle_fromlist" -> HookHF(w, f.h, f.module, f.fromlist, f.recursive, d)
    [] f.fn = "import" -> Import(w, f.name, d)
    [] f.fn = "wrapper_find_and_load" -> wrapper_find_and_load(w, f.h, f.name, d)

\* ------------------------------------------------- states.py: the states
\* The part of the process that patching and unpatching change.
\* g = [sm, fal, hf, st, stack, exc, revlog]; revlog is history: the states
\* reverted, in the order in which they were reverted.
NoState ==
  [active |-> FALSE, original_find_and_load |-> 0, original_handle_fromlist |-> 0,
   hidden |-> EmptyDict]

\* BootstrapState._hide_modules
hide_modules(regexes, sm) ==
  LET matching == get_matching_modules(regexes, sm)
  IN [hidden |-> [n \in matching |-> sm[n]],
      sm |-> [n \in (DOMAIN sm) \ matching |-> sm[n]]]

\* Mutant: the state captures the absolute originals, not the installed hooks.
BootstrapState_absolute(g, k) ==
  LET hm == hide_modules(HideRegexes(cfg[k]), g.sm)
  IN [g EXCEPT !.st[k] = [active |-> TRUE,
                          original_find_and_load |-> 0,
                          original_handle_fromlist |-> 0,
                          hidden |-> hm.hidden],
               !.sm = hm.sm]

\* BootstrapState.__init__
BootstrapState(g, k) ==
  LET hm == hide_modules(HideRegexes(cfg[k]), g.sm)
  IN [g EXCEPT !.st[k] = [active |-> TRUE,
                          original_find_and_load |-> g.fal,
                          original_handle_fromlist |-> g.hf,
                          hidden |-> hm.hidden],
               !.sm = hm.sm]

\* Mutant: nothing is unloaded.
unload_matching_modules_none(regexes, sm) == sm

\* Mutant: only the first matching module is unloaded.
unload_matching_modules_one(regexes, sm) ==
  LET M == get_matching_modules(regexes, sm)
  IN IF M = {} THEN sm ELSE DictDel(sm, CHOOSE n \in M : TRUE)

\* BootstrapState._unload_matching_modules
unload_matching_modules(regexes, sm) ==
  [n \in (DOMAIN sm) \ get_matching_modules(regexes, sm) |-> sm[n]]

\* dict.update
DictUpdate(d, e) ==
  [n \in (DOMAIN d) \cup (DOMAIN e) |-> IF n \in DOMAIN e THEN e[n] ELSE d[n]]

\* Mutant: revert forgets sys.modules.update(self._hidden_modules).
revert_no_restore(g, k) ==
  IF ~g.st[k].active THEN [g EXCEPT !.exc = Exc("TestImportsRevertError")]
  ELSE [g EXCEPT
          !.sm = unload_matching_modules(HideRegexes(cfg[k]), g.sm),
          !.fal = g.st[k].original_find_and_load,
          !.hf = g.st[k].original_handle_fromlist,
          !.st[k].active = FALSE,
          !.revlog = Append(@, k)]

\* Mutant: revert does not look at self._active.
revert_unguarded(g, k) ==
  [g EXCEPT
     !.sm = DictUpdate(unload_matching_modules(HideRegexes(cfg[k]), g.sm),
                       g.st[k].hidden),
     !.fal = g.st[k].original_find_and_load,
     !.hf = g.st[k].original_handle_fromlist,
     !.st[k].active = FALSE,
     !.revlog = Append(@, k)]

\* BootstrapState.revert
revert(g, k) ==
  IF ~g.st[k].active THEN [g EXCEPT !.exc = Exc("TestImportsRevertError")]
  ELSE [g EXCEPT
          !.sm = DictUpdate(unload_matching_modules(HideRegexes(cfg[k]), g.sm),
                            g.st[k].hidden),
          !.fal = g.st[k].original_find_and_load,
          !.hf = g.st[k].original_handle_fromlist,
          !.st[k].active = FALSE,
          !.revlog = Append(@, k)]

\* BootstrapState.revert when _unload_matching_modules raises (a key of
\* sys.modules that is not a str makes regex.match raise TypeError): the
\* rest of the try block is skipped and the finally clause runs
revert_interrupted(g, k) ==
  IF ~g.st[k].active THEN [g EXCEPT !.exc = Exc("TestImportsRevertError")]
  ELSE [g EXCEPT !.st[k].active = FALSE, !.exc = Exc("TypeError")]

\* Mutant: the suffix is reverted in push order instead of reverse order.
RECURSIVE RevertSuffix_forward(_, _, _)
RevertSuffix_forward(g, index, i) ==
  IF index > i \/ g.exc.type # "none" THEN g
  ELSE LET k == g.stack[index]
           g1 == IF g.st[k].active THEN revert(g, k) ELSE g
       IN RevertSuffix_forward(g1, index + 1, i)

\* Mutant: only the state that was asked for is reverted.
RevertSuffix_only_first(g, index, i) ==
  IF i < index \/ ~g.st[g.stack[index]].active THEN g ELSE revert(g, g.stack[index])

\* Mutant: states that are no longer active are reverted too.
RECURSIVE RevertSuffix_no_skip(_, _, _)
RevertSuffix_no_skip(g, index, i) ==
  IF i < index \/ g.exc.type # "none" THEN g
  ELSE RevertSuffix_no_skip(revert(g, g.stack[i]), index, i - 1)

\* for st in reversed(cls._states[index:]): if st._active: st.revert()
RECURSIVE RevertSuffix(_, _, _)
RevertSuffix(g, index, i) ==
  IF i < index \/ g.exc.type # "none" THEN g
  ELSE LET k == g.stack[i]
           g1 == IF g.st[k].active THEN revert(g, k) ELSE g
       IN RevertSuffix(g1, index, i - 1)

\* list.index: position of the first occurrence, 0 when there is none
IndexOf(stack, k) ==
  LET S == {i \in 1..Len(stack) : stack[i] = k}
  IN IF S = {} THEN 0 ELSE CHOOSE i \in S : \A j \in S : i <= j

\* BootstrapStates.patch
BootstrapStates_patch(g, k) ==
  LET g1 == BootstrapState(g, k)
  IN [g1 EXCEPT !.stack = Append(@, k), !.fal = k, !.hf = k]

\* Mutant: a state that is not in the list is treated like None.
BootstrapStates_unpatch_unknown_is_all(g, state) ==
  LET index == IF state = 0 \/ IndexOf(g.stack, state) = 0 THEN 1
               ELSE IndexOf(g.stack, state)
      g1 == RevertSuffix(g, index, Len(g.stack))
  IN IF g1.exc.type # "none" THEN g1
     ELSE [g1 EXCEPT !.stack = SubSeq(@, 1, index - 1)]

\* Mutant: the reverted states stay in the list.
BootstrapStates_unpatch_keeps_list(g, state) ==
  LET index == IF state = 0 THEN 1 ELSE IndexOf(g.stack, state)
  IN IF index = 0 THEN g ELSE RevertSuffix(g, index, Len(g.stack))

\* Mutant: a state that is not in the list stands for the last one.
BootstrapStates_unpatch_unknown_is_top(g, state) ==
  LET index == IF state = 0 THEN 1
               ELSE IF IndexOf(g.stack, state) = 0 THEN Len(g.stack)
               ELSE IndexOf(g.stack, state)
  IN IF index = 0 THEN g
     ELSE LET g1 == RevertSuffix(g, index, Len(g.stack))
          IN IF g1.exc.type # "none" THEN g1
             ELSE [g1 EXCEPT !.stack = SubSeq(@, 1, index - 1)]

\* BootstrapStates.unpatch(state); state = 0 stands for None
BootstrapStates_unpatch(g, state) ==
  LET index == IF state = 0 THEN 1 ELSE IndexOf(g.stack, state)
  IN IF index = 0 THEN g
     ELSE LET g1 == RevertSuffix(g, index, Len(g.stack))
          IN IF g1.exc.type # "none" THEN g1
             ELSE [g1 EXCEPT !.stack = SubSeq(@, 1, index - 1)]

\* Mutant: clear only unpatches.
BootstrapStates_clear_no_restore(g) == BootstrapStates_unpatch(g, 0)

\* BootstrapStates.clear
BootstrapStates_clear(g) ==
  LET g1 == BootstrapStates_unpatch(g, 0)
  IN IF g1.exc.type # "none" THEN g1 ELSE [g1 EXCEPT !.fal = 0, !.hf = 0]

Globals ==
  [sm |-> sys_modules, fal |-> find_and_load, hf |-> handle_fromlist, st |-> st,
   stack |-> states_list, exc |-> NoExc, revlog |-> <<>>]

World ==
  [sm |-> sys_modules, mods |-> mods, exc |-> NoExc, ret |-> 0, log |-> <<>>, out |-> <<>>]

\* ------------------------------------------------------------ construction
\* utils.normalize_name
normalize_name(spec, ms) ==
  IF spec.kind = "pattern" THEN spec.p
  ELSE IF spec.kind = "module" THEN WildcardToRegex(ms[spec.h].name)
  ELSE WildcardToRegex(spec.s)

\* TestImportsWorker._normalize_sequence: None gives the empty tuple, any
\* other value is iterated over
normalize_sequence(sequence, ms) ==
  [i \in 1..Len(Iterate(sequence)) |-> normalize_name(Iterate(sequence)[i], ms)]

\* TestImportsWorker._normalize_mapping
normalize_mapping(mapping, ms) ==
  [i \in 1..Len(Iterate(mapping)) |->
     [pat |-> normalize_name(Iterate(mapping)[i][1], ms), sub |-> Iterate(mapping)[i][2]]]

\* A name that is bound to no worker object (yet, or any more).
NoWorker ==
  [created |-> FALSE, exc |-> NoExc, fail_modules |-> <<>>, sub_modules |-> <<>>,
   hide_modules |-> <<>>, fail_exception |-> "class", sub_module_reload |-> FALSE,
   debug |-> FALSE]

\* Mutant: a hide set alone counts as a rule.
TestImportsWorker_hide_counts(raw, ms) ==
  IF ~(Truthy(raw.fail) \/ Truthy(raw.sub) \/ Truthy(raw.hide))
  THEN [NoWorker EXCEPT !.exc = Exc("ValueError")]
  ELSE [created |-> TRUE,
        exc |-> NoExc,
        fail_modules |-> normalize_sequence(raw.fail, ms),
        sub_modules |-> normalize_mapping(raw.sub, ms),
        hide_modules |-> normalize_sequence(raw.hide, ms),
        fail_exception |-> raw.exc,
        sub_module_reload |-> raw.reload,
        debug |-> FALSE]

\* Mutant: the constructor checks the types of the substitution targets.
TestImportsWorker_checks_targets(raw, ms) ==
  IF ~(Truthy(raw.fail) \/ Truthy(raw.sub))
  THEN [NoWorker EXCEPT !.exc = Exc("ValueError")]
  ELSE IF \E i \in 1..Len(Iterate(raw.sub)) :
            Iterate(raw.sub)[i][2].kind \notin {"str", "module"}
  THEN [NoWorker EXCEPT !.exc = Exc("TypeError")]
  ELSE [created |-> TRUE,
        exc |-> NoExc,
        fail_modules |-> normalize_sequence(raw.fail, ms),
        sub_modules |-> normalize_mapping(raw.sub, ms),
        hide_modules |-> normalize_sequence(raw.hide, ms),
        fail_exception |-> raw.exc,
        sub_module_reload |-> raw.reload,
        debug |-> FALSE]

\* TestImportsWorker.__init__: created is self._created, exc is what the
\* constructor raised
TestImportsWorker(raw, ms) ==
  IF ~(Truthy(raw.fail) \/ Truthy(raw.sub))
  THEN [NoWorker EXCEPT !.exc = Exc("ValueError")]
  ELSE [created |-> TRUE,
        exc |-> NoExc,
        fail_modules |-> normalize_sequence(raw.fail, ms),
        sub_modules |-> normalize_mapping(raw.sub, ms),
        hide_modules |-> normalize_sequence(raw.hide, ms),
        fail_exception |-> raw.exc,
        sub_module_reload |-> raw.reload,
        debug |-> FALSE]

\* constructor arguments given as tuples and a dict
Raw(fail, sub, hide, exc, reload) ==
  [fail |-> List(fail), sub |-> List(sub), hide |-> List(hide), exc |-> exc,
   reload |-> reload]

\* The rule sets the sessions are constructed with.
RawConfigsA ==
  { Raw(<<Str(n_py)>>, <<>>, <<>>, "class", FALSE),
    Raw(<<Str(n_x)>>, <<>>, <<Str(<<"p", "*">>)>>, "instance", FALSE),
    Raw(<<>>, << <<Str(n_x), Str(n_py)>> >>, <<>>, "class", FALSE),
    Raw(<<>>, << <<Str(n_x), Str(n_py)>> >>, <<>>, "class", TRUE),
    Raw(<<>>, << <<Str(n_px), Str(n_m)>> >>, <<Str(n_m)>>, "class", FALSE),
    Raw(<<>>, << <<Str(n_mx), Str(n_m)>> >>, <<>>, "class", TRUE),
    Raw(<<>>, << <<Str(n_p), Str(n_m)>>, <<Str(n_x), Str(n_py)>> >>, <<>>, "class", TRUE),
    Raw(<<>>, << <<Str(n_px), Str(n_p)>> >>, <<>>, "class", FALSE) }

RawConfigsB ==
  { Raw(<<Str(n_m)>>, <<>>, <<>>, "class", FALSE),
    Raw(<<>>, << <<Str(n_x), Str(n_m)>> >>, <<>>, "class", FALSE) }

\* The registries the process may start with: modules imported earlier.
InitLoads == { <<>>, <<n_p>>, <<n_p, n_py>>, <<n_m>>, <<n_p, n_py, n_m>> }

RECURSIVE LoadAll(_, _)
LoadAll(w, names) ==
  IF names = <<>> THEN w ELSE LoadAll(Load(w, Head(names), Head(names)), Tail(names))

EmptyWorld ==
  [sm |-> EmptyDict, mods |-> <<>>, exc |-> NoExc, ret |-> 0, log |-> <<>>, out |-> <<>>]

NoLast ==
  [op |-> "init", w |-> 0, strict |-> FALSE, name |-> <<>>, module |-> 0,
   fromlist |-> <<>>, recursive |-> FALSE, hook |-> 0, exc |-> NoExc, ret |-> 0,
   log |-> <<>>, revlog |-> <<>>, sm |-> EmptyDict, stack |-> <<>>,
   mod |-> [name |-> <<>>, origin |-> <<>>, attrs |-> {}],
   fal |-> 0, hf |-> 0, bound |-> FALSE, active |-> {}, body |-> NoExc, out |-> <<>>]

\* The record of an operation: what it was called with and what was there
\* when it was called (sm: the registry, stack: BootstrapStates._states,
\* fal and hf: the installed hooks).
Called(op) ==
  [NoLast EXCEPT !.op = op, !.sm = sys_modules, !.stack = states_list,
                 !.fal = find_and_load, !.hf = handle_fromlist]

NoProbe == [spec |-> <<>>, regex |-> [toks |-> <<>>, anch |-> FALSE], name |-> <<>>,
            tried |-> FALSE, result |-> FALSE]

NoPre == [sm |-> EmptyDict, fal |-> 0, hf |-> 0, ids |-> <<>>]

Init ==
  /\ \E loads \in InitLoads :
       LET w == LoadAll(EmptyWorld, loads)
       IN /\ sys_modules = w.sm
          /\ mods = w.mods
  /\ find_and_load = 0
  /\ handle_fromlist = 0
  /\ st = [k \in Workers |-> NoState]
  /\ states_list = <<>>
  /\ w_state = [k \in Workers |-> FALSE]
  /\ \E a \in RawConfigsA, b \in RawConfigsB :
       /\ cfg = [k \in Workers |-> TestImportsWorker(IF k = 1 THEN a ELSE b, mods)]
       /\ args = [k \in Workers |-> IF k = 1 THEN a ELSE b]
  /\ pre = [k \in Workers |-> NoPre]
  /\ dirty = [k \in Workers |-> FALSE]
  /\ solo = [k \in Workers |-> FALSE]
  /\ last = NoLast
  /\ nops = 0
  /\ scope = <<>>
  /\ raised = NoExc
  /\ probe = NoProbe

\* ----------------------------------------------------------------- actions
\* Mutant: patch() does not look at self._state.
patch_no_guard(k, strict, called) ==
  /\ LET g == BootstrapStates_patch(Globals, k)
     IN /\ sys_modules' = g.sm
        /\ find_and_load' = g.fal
        /\ handle_fromlist' = g.hf
        /\ st' = g.st
        /\ states_list' = g.stack
        /\ w_state' = [w_state EXCEPT ![k] = TRUE]
        /\ pre' = pre
        /\ dirty' = dirty
        /\ solo' = solo
        /\ last' = [called EXCEPT !.w = k, !.ret = 1]
  /\ UNCHANGED mods

\* Mutant: unpatch() leaves self._state bound.
unpatch_keeps_bound(k, strict, called) ==
  /\ IF w_state[k]
     THEN LET g == BootstrapStates_unpatch(Globals, k)
          IN /\ sys_modules' = g.sm
             /\ find_and_load' = g.fal
             /\ handle_fromlist' = g.hf
             /\ states_list' = g.stack
             /\ st' = g.st
             /\ w_state' = w_state
             /\ last' = [called EXCEPT !.w = k, !.exc = g.exc, !.revlog = g.revlog,
                           !.ret = IF g.exc.type = "none" THEN 1 ELSE 0]
     ELSE /\ UNCHANGED <<sys_modules, find_and_load, handle_fromlist, st, states_list,
                         w_state>>
          /\ last' = [called EXCEPT !.w = k, !.strict = strict,
                        !.exc = IF strict THEN Exc("TestImportsUnpatchedError") ELSE NoExc]
  /\ UNCHANGED <<mods, pre, dirty, solo>>

\* TestImportsWorker.patch(strict=...); called is the record of the call
patch(k, strict, called) ==
  /\ IF ~w_state[k]
     THEN LET g == BootstrapStates_patch(Globals, k)
          IN /\ sys_modules' = g.sm
             /\ find_and_load' = g.fal
             /\ handle_fromlist' = g.hf
             /\ st' = g.st
             /\ states_list' = g.stack
             /\ w_state' = [w_state EXCEPT ![k] = TRUE]
             /\ pre' = [pre EXCEPT ![k] = [sm |-> sys_modules, fal |-> find_and_load,
                                           hf |-> handle_fromlist,
                                           ids |-> [h \in 1..Len(mods) |->
                                                      <<mods[h].name, mods[h].specname>>]]]
             /\ dirty' = [dirty EXCEPT ![k] = FALSE]
             /\ solo' = [j \in Workers |-> j = k /\ \A i \in Workers : ~st[i].active]
             /\ last' = [called EXCEPT !.w = k, !.ret = 1,
                           !.out = debug(World, k, DebugLine(World, k, "BootstrapState",
                                                             <<>>, 0, <<>>, FALSE)).out]
     ELSE /\ UNCHANGED <<sys_modules, find_and_load, handle_fromlist, st, states_list,
                         w_state, pre, dirty, solo>>
          /\ last' = [called EXCEPT !.w = k, !.strict = strict,
                        !.exc = IF strict THEN Exc("TestImportsPatchedError") ELSE NoExc]
  /\ UNCHANGED mods

\* TestImportsWorker.unpatch(strict=...); called is the record of the call
unpatch(k, strict, called) ==
  /\ IF w_state[k]
     THEN LET g == BootstrapStates_unpatch(Globals, k)
          IN /\ sys_modules' = g.sm
             /\ find_and_load' = g.fal
             /\ handle_fromlist' = g.hf
             /\ states_list' = g.stack
             /\ IF g.exc.type = "none"
                THEN /\ st' = [g.st EXCEPT ![k] = NoState]
                     /\ w_state' = [w_state EXCEPT ![k] = FALSE]
                ELSE /\ st' = g.st
                     /\ w_state' = w_state
             /\ last' = [called EXCEPT !.w = k,
                           !.exc = g.exc, !.revlog = g.revlog,
                           !.ret = IF g.exc.type = "none" THEN 1 ELSE 0]
     ELSE /\ UNCHANGED <<sys_modules, find_and_load, handle_fromlist, st, states_list,
                         w_state>>
          /\ last' = [called EXCEPT !.w = k, !.strict = strict,
                        !.exc = IF strict THEN Exc("TestImportsUnpatchedError") ELSE NoExc]
  /\ UNCHANGED <<mods, pre, dirty, solo>>

\* A call of patch(strict=...) on worker k
Patch(k, strict) ==
  /\ nops < MaxOps
  /\ nops' = nops + 1
  /\ patch(k, strict, [Called("patch") EXCEPT !.bound = w_state[k]])
  /\ UNCHANGED <<cfg, scope, raised, args, probe>>

\* A call of unpatch(strict=...) on worker k
Unpatch(k, strict) ==
  /\ nops < MaxOps
  /\ nops' = nops + 1
  /\ unpatch(k, strict, [Called("unpatch") EXCEPT !.bound = w_state[k]])
  /\ UNCHANGED <<cfg, scope, raised, args, probe>>

\* What a call of an installed hook leaves behind: w is the outcome.
Resolved(w, called) ==
  /\ w.exc.type # "Exhausted"
  /\ sys_modules' = w.sm
  /\ mods' = w.mods
  /\ last' = [called EXCEPT !.exc = w.exc, !.ret = IF Ok(w) THEN w.ret ELSE 0,
                            !.log = w.log, !.out = w.out]
  /\ dirty' = [k \in Workers |-> TRUE]
  /\ UNCHANGED <<find_and_load, handle_fromlist, st, states_list, w_state, cfg, pre, solo,
                 scope, args, probe>>
  /\ raised' = IF scope # <<>> THEN w.exc ELSE NoExc

\* A call of importlib._bootstrap._find_and_load(name, import_)
Resolve(name) ==
  /\ nops < MaxOps
  /\ nops' = nops + 1
  /\ raised.type = "none"
  /\ Resolved(Call(World, CallFindAndLoad(find_and_load, name), MaxDepth),
              [Called("resolve") EXCEPT !.name = name, !.hook = find_and_load])

\* A call of importlib._bootstrap._handle_fromlist(module, fromlist, import_,
\* recursive=...)
ResolveMembers(h, fromlist, recursive) ==
  /\ nops < MaxOps
  /\ nops' = nops + 1
  /\ raised.type = "none"
  /\ Resolved(Call(World, CallHandleFromlist(handle_fromlist, h, fromlist, recursive),
                   MaxDepth),
              [Called("resolveMembers") EXCEPT !.module = h,
                 !.mod = [name |-> mods[h].name, origin |-> mods[h].origin,
                          attrs |-> DOMAIN mods[h].attr],
                 !.fromlist = fromlist, !.recursive = recursive,
                 !.hook = handle_fromlist])

\* The names and from-lists that importing code asks for.
Names == {n_p, n_py, n_px, n_m, n_mx, n_x}
FromLists == { <<n_y>>, <<n_star>>, <<n_t, n_y>> }

\* The import statement calls _handle_fromlist only for a module that has a
\* __path__, and a module it holds is one that is or was in sys.modules.
PackageHandles == {h \in 1..Len(mods) : mods[h].origin \in Packages}

Next ==
  \/ \E k \in Workers, strict \in BOOLEAN : Patch(k, strict)
  \/ \E k \in Workers, strict \in BOOLEAN : Unpatch(k, strict)
  \/ \E name \in Names : Resolve(name)
  \/ \E h \in PackageHandles, fromlist \in FromLists, recursive \in BOOLEAN :
       ResolveMembers(h, fromlist, recursive)

Spec == Init /\ [][Next]_vars

\* ------------------------------------------- more substitution mappings
\* Mappings whose sources overlap (in both orders), a mapping with a target
\* that is neither a str nor a module, and a target nested two levels below
\* its own source.
RawConfigsSub ==
  { Raw(<<>>, << <<Str(n_xs), Str(n_m)>>, <<Str(n_x), Str(n_py)>> >>, <<>>, "class", FALSE),
    Raw(<<>>, << <<Str(n_x), Str(n_py)>>, <<Str(n_xs), Str(n_m)>> >>, <<>>, "class", FALSE),
    Raw(<<>>, << <<Str(n_x), Obj>>, <<Str(n_xs), Str(n_m)>> >>, <<>>, "class", FALSE),
    Raw(<<>>, << <<Str(n_p), Str(n_pyt)>> >>, <<>>, "class", FALSE) }

InitSub ==
  /\ \E loads \in InitLoads :
       LET w == LoadAll(EmptyWorld, loads)
       IN /\ sys_modules = w.sm
          /\ mods = w.mods
  /\ find_and_load = 0
  /\ handle_fromlist = 0
  /\ st = [k \in Workers |-> NoState]
  /\ states_list = <<>>
  /\ w_state = [k \in Workers |-> FALSE]
  /\ \E a \in RawConfigsSub, b \in {Raw(<<Str(n_mx)>>, <<>>, <<>>, "class", FALSE)} :
       /\ cfg = [k \in Workers |-> TestImportsWorker(IF k = 1 THEN a ELSE b, mods)]
       /\ args = [k \in Workers |-> IF k = 1 THEN a ELSE b]
  /\ pre = [k \in Workers |-> NoPre]
  /\ dirty = [k \in Workers |-> FALSE]
  /\ solo = [k \in Workers |-> FALSE]
  /\ last = NoLast
  /\ nops = 0
  /\ scope = <<>>
  /\ raised = NoExc
  /\ probe = NoProbe

SpecSub == InitSub /\ [][Next]_vars

\* ---------------------------------------- attributes set by user code
\* Sessions that substitute x by p.y, with and without reloading and with
\* p.y in the explicit hide set.
RawConfigsAttr ==
  { Raw(<<>>, << <<Str(n_x), Str(n_py)>> >>, <<>>, "class", FALSE),
    Raw(<<>>, << <<Str(n_x), Str(n_py)>> >>, <<>>, "class", TRUE),
    Raw(<<>>, << <<Str(n_x), Str(n_py)>> >>, <<Str(n_py)>>, "class", FALSE) }

\* What user code did to the attribute y of package p before the session:
\* nothing, p.y = "FOO", or delattr(p, "y").
UserAttr(w, what) ==
  IF n_p \notin DOMAIN w.sm \/ what = "keep" THEN w
  ELSE IF what = "other" THEN SetAttr(w, w.sm[n_p], n_y, NONMODULE)
  ELSE [w EXCEPT !.mods[w.sm[n_p]].attr = DictDel(@, n_y)]

InitAttr ==
  /\ \E loads \in InitLoads, what \in {"keep", "other", "absent"} :
       LET w == UserAttr(LoadAll(EmptyWorld, loads), what)
       IN /\ sys_modules = w.sm
          /\ mods = w.mods
  /\ find_and_load = 0
  /\ handle_fromlist = 0
  /\ st = [k \in Workers |-> NoState]
  /\ states_list = <<>>
  /\ w_state = [k \in Workers |-> FALSE]
  /\ \E a \in RawConfigsAttr, b \in {Raw(<<Str(n_mx)>>, <<>>, <<>>, "class", FALSE)} :
       /\ cfg = [k \in Workers |-> TestImportsWorker(IF k = 1 THEN a ELSE b, mods)]
       /\ args = [k \in Workers |-> IF k = 1 THEN a ELSE b]
  /\ pre = [k \in Workers |-> NoPre]
  /\ dirty = [k \in Workers |-> FALSE]
  /\ solo = [k \in Workers |-> FALSE]
  /\ last = NoLast
  /\ nops = 0
  /\ scope = <<>>
  /\ raised = NoExc
  /\ probe = NoProbe

SpecAttr == InitAttr /\ [][Next]_vars

\* ------------------------------------------ from-lists with several hits
\* Sessions whose fail rules match several members of one package: every
\* member of h, the second export of h, every member of p, and two members
\* of p listed against the order of a from-list.
RawConfigsFrom ==
  { Raw(<<Str(n_hs)>>, <<>>, <<>>, "class", FALSE),
    Raw(<<Str(n_ht)>>, <<>>, <<>>, "class", FALSE),
    Raw(<<Str(n_ps)>>, <<>>, <<>>, "class", FALSE),
    Raw(<<Str(n_py), Str(Join(n_p, n_t))>>, <<>>, <<>>, "class", FALSE) }

InitLoadsFrom == { <<n_hpkg>>, <<n_p>>, <<n_p, n_py>>, <<n_hpkg, n_p, n_py>> }

\* user code has set the private attribute _h on package p
UserPrivate(w) ==
  IF n_p \notin DOMAIN w.sm THEN w ELSE SetAttr(w, w.sm[n_p], n_h, NONMODULE)

InitFrom ==
  /\ \E loads \in InitLoadsFrom :
       LET w == UserPrivate(LoadAll(EmptyWorld, loads))
       IN /\ sys_modules = w.sm
          /\ mods = w.mods
  /\ find_and_load = 0
  /\ handle_fromlist = 0
  /\ st = [k \in Workers |-> NoState]
  /\ states_list = <<>>
  /\ w_state = [k \in Workers |-> FALSE]
  /\ \E a \in RawConfigsFrom, b \in {Raw(<<Str(n_hy)>>, <<>>, <<>>, "instance", FALSE)} :
       /\ cfg = [k \in Workers |-> TestImportsWorker(IF k = 1 THEN a ELSE b, mods)]
       /\ args = [k \in Workers |-> IF k = 1 THEN a ELSE b]
  /\ pre = [k \in Workers |-> NoPre]
  /\ dirty = [k \in Workers |-> FALSE]
  /\ solo = [k \in Workers |-> FALSE]
  /\ last = NoLast
  /\ nops = 0
  /\ scope = <<>>
  /\ raised = NoExc
  /\ probe = NoProbe

SpecFrom == InitFrom /\ [][Next]_vars

\* ------------------------------------- the states used without a worker
\* What a call on the states leaves behind: g is the outcome.
Committed(g, called) ==
  /\ nops < MaxCalls
  /\ nops' = nops + 1
  /\ sys_modules' = g.sm
  /\ find_and_load' = g.fal
  /\ handle_fromlist' = g.hf
  /\ st' = g.st
  /\ states_list' = g.stack
  /\ last' = [called EXCEPT !.exc = g.exc, !.revlog = g.revlog,
                            !.active = {k \in Workers : st[k].active}]
  /\ UNCHANGED <<mods, w_state, cfg, pre, dirty, solo, scope, raised, args, probe>>

\* BootstrapState(regexes) constructed directly, with the regexes of worker
\* k: it hides the matching modules and is in no list
StateNew(k) ==
  /\ st[k] = NoState
  /\ \A i \in 1..Len(states_list) : states_list[i] # k
  /\ ~w_state[k]
  /\ Committed(BootstrapState(Globals, k), [Called("state_new") EXCEPT !.w = k])

\* state.revert() called directly on the state made for worker k
StateRevert(k) ==
  /\ st[k] # NoState
  /\ Committed(revert(Globals, k), [Called("revert") EXCEPT !.w = k])

\* BootstrapStates.unpatch(state) called directly; 0 stands for None
StatesUnpatch(state) ==
  /\ state # 0 => st[state] # NoState
  /\ Committed(BootstrapStates_unpatch(Globals, state),
               [Called("states_unpatch") EXCEPT !.w = state])

\* BootstrapStates.clear()
StatesClear ==
  Committed(BootstrapStates_clear(Globals), Called("clear"))

\* BootstrapStates.patch(...) called directly with a pair of callables (named
\* k in the hook variables) and the regexes of worker k; k names one state
\* object at a time
StatesPatch(k) ==
  /\ st[k] = NoState
  /\ \A i \in 1..Len(states_list) : states_list[i] # k
  /\ ~w_state[k]
  /\ Committed(BootstrapStates_patch(Globals, k), [Called("states_patch") EXCEPT !.w = k])

NextStates ==
  \/ \E k \in Workers : StatesPatch(k)
  \/ \E k \in Workers : StateNew(k)
  \/ \E k \in Workers : StateRevert(k)
  \/ \E state \in Workers \cup {0} : StatesUnpatch(state)
  \/ StatesClear

SpecStates == Init /\ [][NextStates]_vars

\* state.revert() called directly while the registry cannot be scanned
StateRevertInterrupted(k) ==
  /\ st[k] # NoState
  /\ Committed(revert_interrupted(Globals, k), [Called("revert_interrupted") EXCEPT !.w = k])

NextFault ==
  \/ \E k \in Workers : StatesPatch(k)
  \/ \E k \in Workers : StateNew(k)
  \/ \E k \in Workers : StateRevert(k)
  \/ \E k \in Workers : StateRevertInterrupted(k)
  \/ \E state \in Workers \cup {0} : StatesUnpatch(state)
  \/ StatesClear

SpecFault == Init /\ [][NextFault]_vars

\* ------------------------------------------- longer runs of handle calls
\* A call of patch(strict=...) on worker k, in a run of up to MaxCalls calls
PatchCall(k, strict) ==
  /\ nops < MaxCalls
  /\ nops' = nops + 1
  /\ patch(k, strict, [Called("patch") EXCEPT !.bound = w_state[k]])
  /\ UNCHANGED <<cfg, scope, raised, args, probe>>

\* A call of unpatch(strict=...) on worker k, in such a run
UnpatchCall(k, strict) ==
  /\ nops < MaxCalls
  /\ nops' = nops + 1
  /\ unpatch(k, strict, [Called("unpatch") EXCEPT !.bound = w_state[k]])
  /\ UNCHANGED <<cfg, scope, raised, args, probe>>

NextHandles ==
  \/ \E k \in Workers, strict \in BOOLEAN : PatchCall(k, strict)
  \/ \E k \in Workers, strict \in BOOLEAN : UnpatchCall(k, strict)

SpecHandles == Init /\ [][NextHandles]_vars

\* state.revert() called directly on the state of worker k, which is in the
\* list
RevertListed(k) ==
  /\ \E i \in 1..Len(states_list) : states_list[i] = k
  /\ Committed(revert(Globals, k), [Called("revert") EXCEPT !.w = k])

\* BootstrapStates.unpatch(state) called directly with the state that worker
\* `state` is bound to; 0 stands for None
UnpatchHeld(state) ==
  /\ state # 0 => w_state[state]
  /\ Committed(BootstrapStates_unpatch(Globals, state),
               [Called("states_unpatch") EXCEPT !.w = state])

NextMixed ==
  \/ \E k \in Workers, strict \in BOOLEAN : PatchCall(k, strict)
  \/ \E k \in Workers, strict \in BOOLEAN : UnpatchCall(k, strict)
  \/ \E k \in Workers : RevertListed(k)
  \/ \E state \in Workers \cup {0} : UnpatchHeld(state)

SpecMixed == Init /\ [][NextMixed]_vars

\* the same without the direct revert
NextUnwind ==
  \/ \E k \in Workers, strict \in BOOLEAN : PatchCall(k, strict)
  \/ \E k \in Workers, strict \in BOOLEAN : UnpatchCall(k, strict)
  \/ \E state \in Workers \cup {0} : UnpatchHeld(state)

SpecUnwind == Init /\ [][NextUnwind]_vars

\* ------------------------------------------------------- the debug flag
\* worker.debug = b, set by the code that holds worker k
SetDebug(k, b) ==
  /\ cfg[k].created
  /\ cfg[k].debug # b
  /\ cfg' = [cfg EXCEPT ![k].debug = b]
  /\ UNCHANGED <<sys_modules, mods, find_and_load, handle_fromlist, st, states_list,
                 w_state, pre, dirty, solo, last, nops, scope, raised, args, probe>>

NextDebug ==
  \/ \E k \in Workers, strict \in BOOLEAN : Patch(k, strict)
  \/ \E k \in Workers, strict \in BOOLEAN : Unpatch(k, strict)
  \/ \E name \in Names : Resolve(name)
  \/ \E h \in PackageHandles, fromlist \in FromLists, recursive \in BOOLEAN :
       ResolveMembers(h, fromlist, recursive)
  \/ \E k \in Workers, b \in BOOLEAN : SetDebug(k, b)

\* sessions that fail a name, substitute a name, and substitute a name
\* below a package (whose alias parent the wrapper resolves by itself)
RawConfigsDebug ==
  { Raw(<<Str(n_py)>>, <<>>, <<>>, "class", FALSE),
    Raw(<<>>, << <<Str(n_x), Str(n_py)>> >>, <<>>, "class", FALSE),
    Raw(<<>>, << <<Str(n_px), Str(n_m)>> >>, <<Str(n_m)>>, "class", FALSE) }

InitDebug ==
  /\ \E loads \in { <<>>, <<n_p, n_py>>, <<n_p, n_py, n_m>> } :
       LET w == LoadAll(EmptyWorld, loads)
       IN /\ sys_modules = w.sm
          /\ mods = w.mods
  /\ find_and_load = 0
  /\ handle_fromlist = 0
  /\ st = [k \in Workers |-> NoState]
  /\ states_list = <<>>
  /\ w_state = [k \in Workers |-> FALSE]
  /\ \E a \in RawConfigsDebug, b \in {Raw(<<Str(n_m)>>, <<>>, <<>>, "class", FALSE)} :
       /\ cfg = [k \in Workers |-> TestImportsWorker(IF k = 1 THEN a ELSE b, mods)]
       /\ args = [k \in Workers |-> IF k = 1 THEN a ELSE b]
  /\ pre = [k \in Workers |-> NoPre]
  /\ dirty = [k \in Workers |-> FALSE]
  /\ solo = [k \in Workers |-> FALSE]
  /\ last = NoLast
  /\ nops = 0
  /\ scope = <<>>
  /\ raised = NoExc
  /\ probe = NoProbe

SpecDebug == InitDebug /\ [][NextDebug]_vars

\* ------------------------------------------- construction and scoped use
\* The rule sets worker 1 is constructed with before anything else happens:
\* two of them give hide_modules as one string.  Worker 2 is either
\* constructed as fail_imports("m") or not constructed yet.
RawConfigsScope ==
  { Raw(<<Str(n_py)>>, <<>>, <<>>, "class", FALSE),
    Raw(<<>>, << <<Str(n_x), Str(n_py)>> >>, <<>>, "class", FALSE),
    [Raw(<<Str(n_x)>>, <<>>, <<>>, "class", FALSE) EXCEPT !.hide = Str(n_py)],
    [Raw(<<Str(n_x)>>, <<>>, <<>>, "class", FALSE)
       EXCEPT !.hide = Str(<<"p", ".", "y", "*">>)] }

\* The arguments worker 2 may be constructed with: fail_imports() with no
\* names, with a hide set only, mock_imports() with no substitutions, and
\* fail_imports("m").
RawConfigsNew ==
  { [Raw(<<>>, <<>>, <<>>, "class", FALSE) EXCEPT !.sub = None, !.hide = None],
    [Raw(<<>>, <<>>, <<Str(n_p)>>, "class", FALSE) EXCEPT !.sub = None],
    [Raw(<<>>, <<>>, <<>>, "class", FALSE) EXCEPT !.fail = None],
    Raw(<<Str(n_m)>>, <<>>, <<>>, "class", FALSE) }

NoArgs == [fail |-> None, sub |-> None, hide |-> None, exc |-> "class", reload |-> FALSE]

InitScope ==
  /\ \E loads \in InitLoads :
       LET w == LoadAll(EmptyWorld, loads)
       IN /\ sys_modules = w.sm
          /\ mods = w.mods
  /\ find_and_load = 0
  /\ handle_fromlist = 0
  /\ st = [k \in Workers |-> NoState]
  /\ states_list = <<>>
  /\ w_state = [k \in Workers |-> FALSE]
  /\ \E a \in RawConfigsScope, b \in {NoArgs, Raw(<<Str(n_m)>>, <<>>, <<>>, "class", FALSE)} :
       /\ cfg = [k \in Workers |->
                  IF k = 1 THEN TestImportsWorker(a, mods)
                  ELSE IF b = NoArgs THEN NoWorker ELSE TestImportsWorker(b, mods)]
       /\ args = [k \in Workers |-> IF k = 1 THEN a ELSE b]
  /\ pre = [k \in Workers |-> NoPre]
  /\ dirty = [k \in Workers |-> FALSE]
  /\ solo = [k \in Workers |-> FALSE]
  /\ last = NoLast
  /\ nops = 0
  /\ scope = <<>>
  /\ raised = NoExc
  /\ probe = NoProbe

\* TestImportsWorker(**raw) bound to the free name k; a constructor that
\* raises leaves an object behind that only the finalizer will see.
Construct(k, raw) ==
  /\ nops < MaxOps
  /\ nops' = nops + 1
  /\ raised.type = "none"
  /\ cfg[k] = NoWorker
  /\ cfg' = [cfg EXCEPT ![k] = TestImportsWorker(raw, mods)]
  /\ args' = [args EXCEPT ![k] = raw]
  /\ last' = [Called("construct") EXCEPT !.w = k, !.exc = cfg'[k].exc,
                                         !.ret = IF cfg'[k].created THEN 1 ELSE 0]
  /\ raised' = IF scope # <<>> THEN cfg'[k].exc ELSE NoExc
  /\ UNCHANGED <<sys_modules, mods, find_and_load, handle_fromlist, st, states_list,
                 w_state, pre, dirty, solo, scope, probe>>

\* a bound method of worker k is installed as a hook or kept by a state
Referenced(k) ==
  \/ find_and_load = k
  \/ handle_fromlist = k
  \/ \E j \in Workers : st[j].original_find_and_load = k
  \/ \E j \in Workers : st[j].original_handle_fromlist = k

\* TestImportsWorker.__del__, when nothing refers to the object any more
Del(k) ==
  /\ nops < MaxOps
  /\ nops' = nops + 1
  /\ cfg[k] # NoWorker
  /\ \A i \in 1..Len(scope) : scope[i] # k
  /\ ~Referenced(k)
  /\ IF cfg[k].created
     THEN unpatch(k, FALSE, [Called("del") EXCEPT !.bound = w_state[k]])
     ELSE /\ last' = [Called("del") EXCEPT !.w = k]
          /\ UNCHANGED <<sys_modules, mods, find_and_load, handle_fromlist, st,
                         states_list, w_state, pre, dirty, solo>>
  /\ cfg' = [cfg EXCEPT ![k] = NoWorker]
  /\ UNCHANGED <<scope, raised, args, probe>>

\* TestImportsWorker.__enter__: the with-block of worker k is entered, unless
\* patch() raises
Enter(k) ==
  /\ nops < MaxOps
  /\ nops' = nops + 1
  /\ raised.type = "none"
  /\ cfg[k].created
  /\ patch(k, TRUE, [Called("enter") EXCEPT !.bound = w_state[k]])
  /\ scope' = IF w_state[k] THEN scope ELSE Append(scope, k)
  /\ raised' = IF w_state[k] /\ scope # <<>>
               THEN Exc("TestImportsPatchedError") ELSE NoExc
  /\ UNCHANGED <<cfg, args, probe>>

\* Mutant: __exit__ unpatches only when the body raised nothing.
Exit_on_success_only(k) ==
  /\ scope # <<>>
  /\ scope[Len(scope)] = k
  /\ IF raised.type = "none"
     THEN unpatch(k, TRUE, [Called("exit") EXCEPT !.bound = w_state[k], !.body = raised])
     ELSE /\ last' = [Called("exit") EXCEPT !.w = k, !.bound = w_state[k], !.body = raised]
          /\ UNCHANGED <<sys_modules, mods, find_and_load, handle_fromlist, st,
                         states_list, w_state, pre, dirty, solo>>
  /\ scope' = SubSeq(scope, 1, Len(scope) - 1)
  /\ raised' = IF Len(scope) = 1 THEN NoExc ELSE raised
  /\ UNCHANGED <<cfg, args, probe, nops>>

\* TestImportsWorker.__exit__(exc_type, exc_value, exc_tb): the innermost
\* with-block is left, its body having ended normally or with `raised`;
\* __exit__ returns None, so what the body raised goes on propagating, until
\* it leaves the outermost with-block
Exit(k) ==
  /\ scope # <<>>
  /\ scope[Len(scope)] = k
  /\ unpatch(k, TRUE, [Called("exit") EXCEPT !.bound = w_state[k], !.body = raised])
  /\ scope' = SubSeq(scope, 1, Len(scope) - 1)
  /\ raised' = IF Len(scope) = 1 THEN NoExc
               ELSE IF ~w_state[k] THEN Exc("TestImportsUnpatchedError")
               ELSE raised
  /\ UNCHANGED <<cfg, args, probe, nops>>

\* Outside every with-block the handles are also used by hand; inside one,
\* the body imports, constructs and nests further with-blocks.
NextScope ==
  \/ \E k \in Workers, raw \in RawConfigsNew : Construct(k, raw)
  \/ \E k \in Workers : Del(k)
  \/ \E k \in Workers : Enter(k)
  \/ \E k \in Workers : Exit(k)
  \/ \E k \in Workers, strict \in BOOLEAN :
       scope = <<>> /\ cfg[k].created /\ Patch(k, strict)
  \/ \E k \in Workers, strict \in BOOLEAN :
       scope = <<>> /\ cfg[k].created /\ Unpatch(k, strict)
  \/ \E name \in Names : Resolve(name)
  \/ \E h \in PackageHandles, fromlist \in FromLists, recursive \in BOOLEAN :
       ResolveMembers(h, fromlist, recursive)

SpecScope == InitScope /\ [][NextScope]_vars

\* ------------------------------------------------- the matcher by itself
\* sequences over A of length at most n
SeqUpTo(A, n) == UNION {[1..m -> A] : m \in 0..n}

n_a_b == <<"a", "*", "b">>
n_foo_b_r == <<"f", "o", "o", ".", "b", "*", "r">>

\* The string specifications handed to normalize_name.
ProbeSpecs == SeqUpTo({"a", "b", DOT, STAR}, MaxLen) \cup {n_a_b, n_foo_b_r}

\* The names the compiled patterns are tried on (registry names and
\* requested names are arbitrary str values).
ProbeNames ==
  SeqUpTo({"a", "b", DOT, NL}, MaxLen + 1)
    \cup { <<"a", "x", "y", "z", "b">>,
           <<"f", "o", "o", ".", "b", "a", "r">>,
           <<"f", "o", "o", ".", "b", "e", "e", "r">>,
           <<"f", "o", "o", "d", "b", "a", "r">> }

InitMatch ==
  /\ sys_modules = EmptyDict
  /\ mods = <<>>
  /\ find_and_load = 0
  /\ handle_fromlist = 0
  /\ st = [k \in Workers |-> NoState]
  /\ states_list = <<>>
  /\ w_state = [k \in Workers |-> FALSE]
  /\ cfg = [k \in Workers |-> NoWorker]
  /\ args = [k \in Workers |-> NoArgs]
  /\ pre = [k \in Workers |-> NoPre]
  /\ dirty = [k \in Workers |-> FALSE]
  /\ solo = [k \in Workers |-> FALSE]
  /\ last = NoLast
  /\ nops = 0
  /\ scope = <<>>
  /\ raised = NoExc
  /\ probe = NoProbe

\* regex = normalize_name(spec) for a str
Compile(spec) ==
  /\ probe = NoProbe
  /\ probe' = [NoProbe EXCEPT !.spec = spec, !.regex = normalize_name(Str(spec), mods)]
  /\ UNCHANGED <<sys_modules, mods, find_and_load, handle_fromlist, st, states_list,
                 w_state, cfg, pre, dirty, solo, last, nops, scope, raised, args>>

\* regex.match(name), as is_fail_match and _get_matching_modules apply it
Match(name) ==
  /\ probe.regex.anch
  /\ ~probe.tried
  /\ probe' = [probe EXCEPT !.name = name, !.tried = TRUE,
                            !.result = RegexMatch(probe.regex, name)]
  /\ UNCHANGED <<sys_modules, mods, find_and_load, handle_fromlist, st, states_list,
                 w_state, cfg, pre, dirty, solo, last, nops, scope, raised, args>>

NextMatch ==
  \/ \E spec \in ProbeSpecs : Compile(spec)
  \/ \E name \in ProbeNames : Match(name)

SpecMatch == InitMatch /\ [][NextMatch]_vars

\* ------------------------------------------------------------------ claims
Reverse(seq) == [i \in 1..Len(seq) |-> seq[Len(seq) + 1 - i]]

\* name matches a fail matcher, a substitution source or an explicit hide
\* matcher of worker k
MatchesAnyRule(k, n) ==
  \/ \E i \in 1..Len(cfg[k].fail_modules) : RegexMatch(cfg[k].fail_modules[i], n)
  \/ \E i \in 1..Len(cfg[k].sub_modules) : RegexMatch(cfg[k].sub_modules[i].pat, n)
  \/ \E i \in 1..Len(cfg[k].hide_modules) : RegexMatch(cfg[k].hide_modules[i], n)

\* the call just made was worker k's own unpatch() and it reverted k's state
Deactivated(k) ==
  /\ last.op = "unpatch"
  /\ last.w = k
  /\ Len(last.revlog) > 0
  /\ last.revlog[Len(last.revlog)] = k

\* the call just made went through the wrapper of worker k, bound and active
ThroughWrapper(op, k) ==
  /\ last.op = op
  /\ last.hook = k
  /\ w_state[k]
  /\ st[k].active

SameEntry(sm1, sm2, n) ==
  /\ (n \in DOMAIN sm1) = (n \in DOMAIN sm2)
  /\ n \in DOMAIN sm1 => sm1[n] = sm2[n]

\* C1: when a worker's unpatch() unwinds a suffix of the stack, the states of
\* the suffix are reverted in reverse push order (an inner session before the
\* outer one), and the hooks installed afterwards are the ones that were
\* installed when the worker was activated.
C1_LifoUnwind ==
  \A a \in Workers :
    (last.op = "unpatch" /\ last.w = a /\ IndexOf(last.stack, a) > 0) =>
      /\ last.revlog =
           Reverse(SubSeq(last.stack, IndexOf(last.stack, a), Len(last.stack)))
      /\ find_and_load = pre[a].fal
      /\ handle_fromlist = pre[a].hf

C1_Witness ==
  /\ last.op = "unpatch"
  /\ last.w = 1
  /\ last.stack = <<1, 2>>
  /\ last.revlog = <<2, 1>>

\* C2: activate A, activate B, deactivate A, with no resolution in between:
\* the registry and both hooks are what they were just before A was
\* activated, and neither state is left in the stack.
C2_NestedRoundTrip ==
  \A a \in Workers, b \in Workers :
    (a # b /\ last.op = "unpatch" /\ last.w = a /\ last.stack = <<a, b>> /\ ~dirty[a]) =>
      /\ sys_modules = pre[a].sm
      /\ find_and_load = pre[a].fal
      /\ handle_fromlist = pre[a].hf
      /\ \A i \in 1..Len(states_list) : states_list[i] \notin {a, b}

C2_Witness ==
  /\ last.op = "unpatch"
  /\ last.w = 1
  /\ last.stack = <<1, 2>>
  /\ ~dirty[1]
  /\ Cardinality(DOMAIN pre[1].sm) >= Cardinality(DOMAIN last.sm) + 2
  /\ Cardinality(DOMAIN pre[2].sm) > Cardinality(DOMAIN last.sm)

\* C3 as claimed: after one session (no other session active meanwhile) is
\* deactivated, the whole registry equals the registry just before activation.
C3_FullReversibility ==
  \A k \in Workers :
    (Deactivated(k) /\ solo[k]) => sys_modules = pre[k].sm

\* C3 as amended: after one session is deactivated, every name that matches
\* one of its rules has the registry entry (absent, or the same handle) that
\* it had just before activation.
C3_MatchingKeysReversible ==
  \A k \in Workers :
    (Deactivated(k) /\ solo[k]) =>
      \A n \in (DOMAIN sys_modules) \cup (DOMAIN pre[k].sm) \cup (DOMAIN last.sm) :
        MatchesAnyRule(k, n) => SameEntry(sys_modules, pre[k].sm, n)

C3_Witness ==
  \E k \in Workers :
    /\ Deactivated(k)
    /\ solo[k]
    /\ dirty[k]
    /\ \E n \in (DOMAIN last.sm) \cup (DOMAIN pre[k].sm) :
         MatchesAnyRule(k, n) /\ ~SameEntry(last.sm, pre[k].sm, n)
    /\ sys_modules # pre[k].sm

\* C4: the registry entries that match a rule of the session at activation
\* are absent right after patch(), and after the session's deactivation the
\* registry maps each of those names to the handle it had before activation.
C4_HideThenRestore ==
  \A k \in Workers :
    /\ (last.op = "patch" /\ last.w = k /\ last.ret = 1) =>
         \A n \in DOMAIN last.sm : MatchesAnyRule(k, n) => n \notin DOMAIN sys_modules
    /\ Deactivated(k) =>
         \A n \in DOMAIN pre[k].sm :
           MatchesAnyRule(k, n) => (n \in DOMAIN sys_modules /\ sys_modules[n] = pre[k].sm[n])

\* a hidden name held another handle when the session was deactivated
C4_Witness ==
  \E k \in Workers :
    /\ Deactivated(k)
    /\ \E n \in DOMAIN pre[k].sm :
         /\ MatchesAnyRule(k, n)
         /\ n \in DOMAIN last.sm
         /\ last.sm[n] # pre[k].sm[n]
         /\ sys_modules[n] = pre[k].sm[n]

\* C5: a name that matches a rule of the session and was absent from the
\* registry at activation is absent after the session's deactivation.
C5_NoLeak ==
  \A k \in Workers :
    Deactivated(k) =>
      \A n \in DOMAIN sys_modules : MatchesAnyRule(k, n) => n \in DOMAIN pre[k].sm

\* such a name was in the registry when the session was deactivated
C5_Witness ==
  \E k \in Workers :
    /\ Deactivated(k)
    /\ \E n \in DOMAIN last.sm :
         MatchesAnyRule(k, n) /\ n \notin DOMAIN pre[k].sm /\ n \notin DOMAIN sys_modules

C7_RaisesIffEntryMatches ==
  \A k \in Workers :
    ThroughWrapper("resolveMembers", k) =>
      ((last.exc.type = "Injected" /\ last.exc.by = k)
        <=> \E i \in 1..Len(last.fromlist) :
              is_fail_match(k, Join(last.mod.name, last.fromlist[i])))

\* the names a from-list stands for: a wildcard entry stands for the
\* module's export list, or without one for its public attribute names
C7_Exports(m) ==
  IF HasAll(m.origin)
  THEN {DunderAll(m.origin)[i] : i \in 1..Len(DunderAll(m.origin))}
  ELSE {a \in m.attrs : a[1] # "_"}

C7_Candidates(m, fromlist) ==
  LET entries == {fromlist[i] : i \in 1..Len(fromlist)}
  IN {Join(m.name, e) : e \in
        (entries \ {n_star}) \cup (IF n_star \in entries THEN C7_Exports(m) ELSE {})}

\* C7 as amended: it raises the configured exception iff some expanded
\* candidate matches a fail matcher; otherwise the captured prior
\* resolveMembers is called next, with the same module, names and recursive
\* value, and a normal return gives the module back.
C7_RaisesIffCandidateMatches ==
  \A k \in Workers :
    ThroughWrapper("resolveMembers", k) =>
      LET hit == \E n \in C7_Candidates(last.mod, last.fromlist) : is_fail_match(k, n)
      IN /\ (last.exc.type = "Injected" /\ last.exc.by = k) <=> hit
         /\ hit => (Len(last.log) = 1 /\ sys_modules = last.sm)
         /\ ~hit =>
              /\ Len(last.log) >= 2
              /\ last.log[2] = LogHF(st[k].original_handle_fromlist, last.module,
                                     last.fromlist, last.recursive)
              /\ last.exc.type = "none" => last.ret = last.module

\* a wildcard entry alone made the call fail
C7_Witness ==
  \E k \in Workers :
    /\ ThroughWrapper("resolveMembers", k)
    /\ last.fromlist = <<n_star>>
    /\ last.exc.type = "Injected"
    /\ last.exc.by = k

\* the target that worker k's substitution mapping gives for a name
SubTarget(k, name) == get_sub_match(World, k, name).name

\* C8 as claimed: after resolve(X), X substituted by a different target, the
\* registry maps X to the returned handle, whose own name and specification
\* name both equal X.
C8_AliasIdentity ==
  \A k \in Workers :
    (ThroughWrapper("resolve", k) /\ last.exc.type = "none"
       /\ SubTarget(k, last.name) # last.name) =>
      /\ last.name \in DOMAIN sys_modules
      /\ sys_modules[last.name] = last.ret
      /\ mods[last.ret].name = last.name
      /\ mods[last.ret].specname = last.name

\* C9 as claimed: for every resolve(X), X substituted by a different target
\* Y, the registry entry under Y after the call is what it was before.
C9_TargetSlotUntouched ==
  \A k \in Workers :
    (ThroughWrapper("resolve", k) /\ ~is_fail_match(k, last.name)
       /\ SubTarget(k, last.name) # last.name) =>
      SameEntry(sys_modules, last.sm, SubTarget(k, last.name))

\* C10: a state captures the hooks installed at its activation; with A
\* active and B activated after it, resolve(name) for a name matching A's
\* fail matchers and none of B's rules fails with A's configured exception.
C10_NestedDelegation ==
  \A a \in Workers, b \in Workers :
    /\ (last.op = "patch" /\ last.w = b /\ last.ret = 1) =>
         /\ st[b].original_find_and_load = pre[b].fal
         /\ st[b].original_handle_fromlist = pre[b].hf
    /\ (a # b /\ ThroughWrapper("resolve", b) /\ states_list = <<a, b>>
          /\ w_state[a] /\ st[a].active
          /\ is_fail_match(a, last.name) /\ ~MatchesAnyRule(b, last.name)) =>
         /\ last.exc.type = "Injected"
         /\ last.exc.by = a

C10_Witness ==
  /\ ThroughWrapper("resolve", 2)
  /\ states_list = <<1, 2>>
  /\ is_fail_match(1, last.name)
  /\ ~MatchesAnyRule(2, last.name)
  /\ last.exc.by = 1

\* C11: patch() on a worker that is already bound to a state raises
\* TestImportsPatchedError in strict mode and returns False otherwise, and
\* pushes no state and changes neither hooks nor registry; patch() on an
\* unbound worker returns True and pushes exactly one state.
C11_ActivateGuard ==
  \A k \in Workers :
    (last.op = "patch" /\ last.w = k) =>
      IF last.bound
      THEN /\ last.exc = IF last.strict THEN Exc("TestImportsPatchedError") ELSE NoExc
           /\ last.ret = 0
           /\ states_list = last.stack
           /\ find_and_load = last.fal
           /\ handle_fromlist = last.hf
           /\ sys_modules = last.sm
      ELSE /\ last.exc = NoExc
           /\ last.ret = 1
           /\ states_list = Append(last.stack, k)
           /\ w_state[k]

\* strict patch() of a bound worker while two states are on the stack
C11_Witness ==
  /\ last.op = "patch"
  /\ last.bound
  /\ last.strict
  /\ last.exc.type = "TestImportsPatchedError"
  /\ Len(last.stack) = 2

\* C12: unpatch() on a worker that is not bound raises
\* TestImportsUnpatchedError in strict mode and returns False otherwise, and
\* changes neither stack, hooks nor registry; unpatch() on a bound worker
\* returns True and leaves the worker unbound.
C12_DeactivateGuard ==
  \A k \in Workers :
    (last.op = "unpatch" /\ last.w = k) =>
      IF ~last.bound
      THEN /\ last.exc = IF last.strict THEN Exc("TestImportsUnpatchedError") ELSE NoExc
           /\ last.ret = 0
           /\ states_list = last.stack
           /\ find_and_load = last.fal
           /\ handle_fromlist = last.hf
           /\ sys_modules = last.sm
      ELSE /\ last.exc = NoExc
           /\ last.ret = 1
           /\ ~w_state[k]

\* a second unpatch(), strict: the worker had been activated before and is
\* unbound now
C12_Witness ==
  \E k \in Workers :
    /\ last.op = "unpatch"
    /\ last.w = k
    /\ ~last.bound
    /\ pre[k] # NoPre
    /\ last.strict
    /\ last.exc.type = "TestImportsUnpatchedError"

\* C13: entering the with-block of a worker activates it; leaving it
\* deactivates it whether the body ended normally or raised: afterwards the
\* worker is unbound, its state is not on the stack, the hooks are the ones
\* that were installed before entry, __exit__ itself has raised nothing and
\* what the body raised is still propagating in the enclosing block.
C13_ScopedUse ==
  \A k \in Workers :
    /\ (last.op = "enter" /\ last.w = k /\ ~last.bound) =>
         /\ w_state[k]
         /\ st[k].active
         /\ states_list = Append(last.stack, k)
         /\ find_and_load = k
         /\ handle_fromlist = k
    /\ (last.op = "exit" /\ last.w = k) =>
         /\ ~w_state[k]
         /\ \A i \in 1..Len(states_list) : states_list[i] # k
         /\ find_and_load = pre[k].fal
         /\ handle_fromlist = pre[k].hf
         /\ last.exc = NoExc
         /\ scope # <<>> => raised = last.body

\* the body of a nested with-block ended with the injected failure, which
\* goes on into the enclosing block
C13_Witness ==
  /\ last.op = "exit"
  /\ last.body.type = "Injected"
  /\ Len(last.stack) = 2
  /\ scope # <<>>
  /\ raised.type = "Injected"

\* C17: constructing a worker with neither fail rules nor substitution
\* rules, with or without a hide set, raises ValueError and changes neither
\* stack, hooks nor registry; nor does finalizing the object left behind.
C17_NoRules ==
  \A k \in Workers :
    (last.w = k /\ ~Truthy(args[k].fail) /\ ~Truthy(args[k].sub)) =>
      /\ last.op = "construct" =>
           /\ last.exc = Exc("ValueError")
           /\ ~cfg[k].created
           /\ ~w_state[k]
           /\ states_list = last.stack
           /\ find_and_load = last.fal
           /\ handle_fromlist = last.hf
           /\ sys_modules = last.sm
      /\ last.op = "del" =>
           /\ last.exc = NoExc
           /\ states_list = last.stack
           /\ find_and_load = last.fal
           /\ handle_fromlist = last.hf
           /\ sys_modules = last.sm

\* an object whose constructor was given a hide set only is finalized while
\* another session is active
C17_Witness ==
  \E k \in Workers :
    /\ last.op = "del"
    /\ last.w = k
    /\ ~Truthy(args[k].fail)
    /\ ~Truthy(args[k].sub)
    /\ Truthy(args[k].hide)
    /\ last.stack # <<>>

\* C18 as claimed: when hide_modules is one string, the registry entries
\* whose names match neither that string (taken as one specification) nor a
\* fail or substitution source matcher stay in the registry while the
\* session is active.
C18_StringIsOneSpecification ==
  \A k \in Workers :
    (last.op \in {"patch", "enter"} /\ last.w = k /\ last.ret = 1
       /\ args[k].hide.kind = "str") =>
      \A n \in DOMAIN last.sm :
        (/\ ~RegexMatch(WildcardToRegex(args[k].hide.s), n)
         /\ ~is_fail_match(k, n)
         /\ get_sub_match(World, k, n).name = n)
        => (n \in DOMAIN sys_modules /\ sys_modules[n] = last.sm[n])

\* C14: BootstrapStates.unpatch(S) for a state S that is not in the list
\* raises nothing and leaves the list, the active flag of every state, the
\* hooks and the registry unchanged.
C14_UnknownUnwind ==
  \A state \in Workers :
    (last.op = "states_unpatch" /\ last.w = state
       /\ \A i \in 1..Len(last.stack) : last.stack[i] # state) =>
      /\ last.exc = NoExc
      /\ states_list = last.stack
      /\ {k \in Workers : st[k].active} = last.active
      /\ find_and_load = last.fal
      /\ handle_fromlist = last.hf
      /\ sys_modules = last.sm

\* the list holds one active state, the state that was given is another
\* one, active too, that was never pushed
C14_Witness ==
  \E state \in Workers :
    /\ last.op = "states_unpatch"
    /\ last.w = state
    /\ Len(last.stack) = 1
    /\ last.stack[1] # state
    /\ last.active = Workers

\* C15: the first revert() of a state succeeds and marks it inactive; a
\* revert() of a state that is inactive raises TestImportsRevertError and
\* leaves the registry and the hooks unchanged.
C15_RevertOnce ==
  \A k \in Workers :
    (last.op = "revert" /\ last.w = k) =>
      IF k \in last.active
      THEN /\ last.exc = NoExc
           /\ ~st[k].active
      ELSE /\ last.exc = Exc("TestImportsRevertError")
           /\ ~st[k].active
           /\ sys_modules = last.sm
           /\ find_and_load = last.fal
           /\ handle_fromlist = last.hf

\* a second revert() at a time when the hooks are not the ones the state
\* captured and the registry holds a name that the state's regexes match
C15_Witness ==
  \E k \in Workers :
    /\ last.op = "revert"
    /\ last.w = k
    /\ last.exc.type = "TestImportsRevertError"
    /\ find_and_load # st[k].original_find_and_load
    /\ \E n \in DOMAIN sys_modules : MatchesAnyRule(k, n)

\* C16: clear() leaves the list of states empty, every state that was in
\* it inactive and both hooks equal to the originals captured when the class
\* was created, also when the list was empty and a wrapper was installed.
C16_Clear ==
  last.op = "clear" =>
    /\ last.exc = NoExc
    /\ states_list = <<>>
    /\ \A i \in 1..Len(last.stack) : ~st[last.stack[i]].active
    /\ find_and_load = 0
    /\ handle_fromlist = 0

\* clear() with an empty list and a worker's wrapper still installed
C16_Witness ==
  /\ last.op = "clear"
  /\ last.stack = <<>>
  /\ last.fal # 0

\* the characters of a string
Chars(s) == {s[i] : i \in 1..Len(s)}

\* C19: for a specification s without the wildcard token the compiled
\* matcher matches a name exactly when the name is s: it matches s, rejects
\* s followed by a further character and matches no other name.
C19_LiteralExact ==
  (probe.tried /\ STAR \notin Chars(probe.spec)) =>
    (probe.result <=> probe.name = probe.spec)

\* what C19 says, for the names that hold no line break
LiteralExactOnLines ==
  (probe.tried /\ STAR \notin Chars(probe.spec) /\ NL \notin Chars(probe.name)) =>
    (probe.result <=> probe.name = probe.spec)

\* the wildcard token matches any substring, the empty one included, and
\* every other character matches only itself
RECURSIVE Glob(_, _, _, _)
Glob(s, i, n, j) ==
  IF i > Len(s) THEN j = Len(n) + 1
  ELSE IF s[i] = STAR
       THEN \E k \in j..(Len(n) + 1) : Glob(s, i + 1, n, k)
       ELSE /\ j <= Len(n)
            /\ n[j] = s[i]
            /\ Glob(s, i + 1, n, j + 1)

\* C20: in a string specification the wildcard token matches any substring
\* (the empty one and ones that hold the separator included) and every other
\* character, the separator included, matches only itself.
C20_Wildcard ==
  probe.tried => (probe.result <=> Glob(probe.spec, 1, probe.name, 1))

\* what C20 says, for the names that hold no line break
WildcardOnLines ==
  (probe.tried /\ NL \notin Chars(probe.name)) =>
    (probe.result <=> Glob(probe.spec, 1, probe.name, 1))

\* the entries of worker k's substitution mapping whose source matches name
C21_Matching(k, name) ==
  {i \in 1..Len(cfg[k].sub_modules) : RegexMatch(cfg[k].sub_modules[i].pat, name)}

\* the target that entry i of worker k's mapping names
C21_TargetOf(k, i) ==
  LET sub == cfg[k].sub_modules[i].sub
  IN IF sub.kind = "module" THEN mods[sub.h].name ELSE sub.s

\* the target of the first matching entry in declared order, or the name
C21_Target(k, name) ==
  IF C21_Matching(k, name) = {} THEN name
  ELSE C21_TargetOf(k, CHOOSE i \in C21_Matching(k, name) :
                         \A j \in C21_Matching(k, name) : i <= j)

\* C21: a resolve through the wrapper that returns has asked the captured
\* prior hook for the target of the first matching entry in declared order
\* (for the requested name itself when no entry matches) and, the prior
\* hook being the original one and the target not registered, what it
\* returns was loaded as that target; no resolve asks for the target of a
\* later matching entry.
C21_FirstMatch ==
  \A k \in Workers :
    (ThroughWrapper("resolve", k) /\ ~is_fail_match(k, last.name)
       /\ \A i \in C21_Matching(k, last.name) :
            cfg[k].sub_modules[i].sub.kind \in {"str", "module"}) =>
      /\ last.exc.type = "none" =>
           \E i \in 1..Len(last.log) :
             last.log[i] = LogFAL(st[k].original_find_and_load, C21_Target(k, last.name))
      /\ \A j \in C21_Matching(k, last.name) :
           C21_TargetOf(k, j) # C21_Target(k, last.name) =>
             \A i \in 1..Len(last.log) : last.log[i].name # C21_TargetOf(k, j)
      /\ (last.exc.type = "none" /\ st[k].original_find_and_load = 0
            /\ C21_Target(k, last.name) \notin DOMAIN last.sm) =>
           mods[last.ret].origin = C21_Target(k, last.name)

\* a resolve that returned, of a name that two entries with different
\* targets match, the first of them being the one with the wildcard
C21_Witness ==
  \E k \in Workers :
    /\ ThroughWrapper("resolve", k)
    /\ last.exc.type = "none"
    /\ \E i, j \in C21_Matching(k, last.name) :
         /\ i < j
         /\ C21_TargetOf(k, i) # C21_TargetOf(k, j)
         /\ cfg[k].sub_modules[i].pat.toks[Len(cfg[k].sub_modules[i].pat.toks)] = ANY

\* the call just made was a resolve through worker k's wrapper that returned,
\* of a name substituted by another name that was in the registry and not
\* in the stash of k's state
C22_Case(k) ==
  /\ ThroughWrapper("resolve", k)
  /\ last.exc.type = "none"
  /\ SubTarget(k, last.name) # last.name
  /\ SubTarget(k, last.name) \in DOMAIN last.sm
  /\ ~is_hidden(k, SubTarget(k, last.name))

\* what C22 says of such a call
C22_Outcome(k) ==
  /\ ~cfg[k].sub_module_reload => last.ret = last.sm[SubTarget(k, last.name)]
  /\ cfg[k].sub_module_reload => last.ret # last.sm[SubTarget(k, last.name)]
  /\ SameEntry(sys_modules, last.sm, SubTarget(k, last.name))

\* C22: for X substituted by Y, Y registered and not stashed, resolve(X)
\* returns the handle registered under Y when the reload flag is off and a
\* handle distinct from it when the flag is on, and in both cases leaves
\* the registry entry under Y as it was.
C22_ReloadFlag ==
  \A k \in Workers : C22_Case(k) => C22_Outcome(k)

\* what C22 says, for the targets that are not the parent of the alias and
\* a session that captured the original hook
ReloadFlagOtherTargets ==
  \A k \in Workers :
    (C22_Case(k) /\ SubTarget(k, last.name) # ParentName(last.name)
       /\ st[k].original_find_and_load = 0) => C22_Outcome(k)

\* the step is a resolve through the wrapper of worker k, bound and active,
\* of a name that matches none of k's matchers
C23_Case(k) ==
  /\ nops' = nops + 1
  /\ last'.op = "resolve"
  /\ last'.hook = k
  /\ w_state[k]
  /\ st[k].active
  /\ ~MatchesAnyRule(k, last'.name)

\* the step ends as a call of the hook that k's state captured, made in
\* the state the step started in, would have ended
C23_AsPrior(k, direct) ==
  /\ last'.exc = direct.exc
  /\ Ok(direct) => last'.ret = direct.ret
  /\ sys_modules' = direct.sm

C23_Step ==
  \A k \in Workers :
    C23_Case(k) =>
      C23_AsPrior(k, Call(World, CallFindAndLoad(st[k].original_find_and_load, last'.name),
                          MaxDepth))

C23_Amended(k, direct) ==
  /\ ((Ok(direct) => direct.mods[direct.ret].name = last'.name)
        /\ (~cfg[k].sub_module_reload \/ last'.name \notin DOMAIN sys_modules)) =>
       /\ C23_AsPrior(k, direct)
       /\ mods' = direct.mods
  /\ (cfg[k].sub_module_reload /\ last'.name \in DOMAIN sys_modules
        /\ st[k].original_find_and_load = 0 /\ last'.exc.type = "none") =>
       /\ last'.ret \notin 1..Len(mods)
       /\ sys_modules'[last'.name] = last'.ret

C24_HasInvalidTarget(k) ==
  \E i \in 1..Len(Iterate(args[k].sub)) :
    Iterate(args[k].sub)[i][2].kind \notin {"str", "module"}

\* the first entry of worker k's mapping that matches name has such a target
C24_FirstMatchInvalid(k, name) ==
  /\ C21_Matching(k, name) # {}
  /\ cfg[k].sub_modules[CHOOSE i \in C21_Matching(k, name) :
                          \A j \in C21_Matching(k, name) : i <= j].sub.kind
       \notin {"str", "module"}

C25_BestEffortRevert ==
  \A k \in Workers :
    (last.op = "revert_interrupted" /\ last.w = k /\ k \in last.active) =>
      /\ ~st[k].active
      /\ find_and_load = st[k].original_find_and_load
      /\ handle_fromlist = st[k].original_handle_fromlist
      /\ \A n \in DOMAIN st[k].hidden :
           n \in DOMAIN sys_modules /\ sys_modules[n] = st[k].hidden[n]

\* what holds of such a revert(): the state is marked inactive and nothing
\* else has changed
InterruptedRevertOnlyMarks ==
  \A k \in Workers :
    (last.op = "revert_interrupted" /\ last.w = k /\ k \in last.active) =>
      /\ ~st[k].active
      /\ last.exc.type = "TypeError"
      /\ find_and_load = last.fal
      /\ handle_fromlist = last.hf
      /\ sys_modules = last.sm
      /\ states_list = last.stack

\* where the unwind just made started in the stack it found: 1 for None
C26_Index ==
  IF last.w = 0 THEN 1
  ELSE CHOOSE i \in 1..Len(last.stack) :
         last.stack[i] = last.w /\ \A j \in 1..(i - 1) : last.stack[j] # last.w

\* the call just made was BootstrapStates.unpatch of None or of a state
\* that was in the stack
C26_Case ==
  /\ last.op = "states_unpatch"
  /\ last.w = 0 \/ \E i \in 1..Len(last.stack) : last.stack[i] = last.w

\* C26: an unwind over a suffix of the stack raises nothing, also when the
\* suffix holds inactive states; the states of the suffix that were active
\* are reverted once each in reverse push order, the inactive ones are
\* skipped, the whole suffix is removed from the stack and the states before
\* it keep their place and their active flag.
C26_IdempotentUnwind ==
  C26_Case =>
    /\ last.exc = NoExc
    /\ last.revlog =
         SelectSeq(Reverse(SubSeq(last.stack, C26_Index, Len(last.stack))),
                   LAMBDA k : k \in last.active)
    /\ states_list = SubSeq(last.stack, 1, C26_Index - 1)
    /\ \A i \in C26_Index..Len(last.stack) : ~st[last.stack[i]].active
    /\ \A i \in 1..(C26_Index - 1) :
         st[last.stack[i]].active = (last.stack[i] \in last.active)

\* an unwind over a suffix that held an inactive state below an active one
C26_Witness ==
  /\ C26_Case
  /\ \E i, j \in C26_Index..Len(last.stack) :
       /\ i < j
       /\ last.stack[i] \notin last.active
       /\ last.stack[j] \in last.active

\* the step is a resolve through the wrapper of worker k, bound and active,
\* of a name substituted by a target whose parent is registered
C27_Case(k) ==
  /\ nops' = nops + 1
  /\ last'.op = "resolve"
  /\ last'.hook = k
  /\ w_state[k]
  /\ st[k].active
  /\ ~is_fail_match(k, last'.name)
  /\ SubTarget(k, last'.name) # last'.name
  /\ ParentName(SubTarget(k, last'.name)) \in DOMAIN sys_modules

\* the attribute of the target's parent named by the target's leaf segment,
\* in the module objects ms
C27_Attr(ms, target) ==
  GetAttr([mods |-> ms], sys_modules[ParentName(target)], LeafName(target))

\* C27: when X is substituted by a target Y that has a parent module P, a
\* resolve(X) leaves the attribute of P named by Y's leaf segment with the
\* value it had before the call, and absent if it was absent, whatever the
\* prior state of Y (not loaded, loaded, hidden) and of the attribute (the
\* module, another value, absent), and however the call ends.
C27_TrueParentAttribute ==
  [][\A k \in Workers :
       C27_Case(k) =>
         C27_Attr(mods', SubTarget(k, last'.name)) = C27_Attr(mods, SubTarget(k, last'.name))]_vars

\* x was resolved as p.y, reloaded, while p.y was registered and the
\* attribute y of p held a value that is not a module: it still holds it
C27_Witness ==
  \E k \in Workers :
    /\ ThroughWrapper("resolve", k)
    /\ last.exc.type = "none"
    /\ last.name = n_x
    /\ SubTarget(k, n_x) = n_py
    /\ cfg[k].sub_module_reload
    /\ n_p \in DOMAIN last.sm
    /\ n_py \in DOMAIN last.sm
    /\ sys_modules[n_p] = last.sm[n_p]
    /\ last.ret # last.sm[n_py]
    /\ GetAttr(World, sys_modules[n_p], n_y) = NONMODULE

\* the position of every candidate in the expansion of a from-list: <<i, j>>
\* for the j-th name that entry i stands for, a wildcard entry standing for
\* the export list in its order, or without one for the public attribute
\* names in the order of dir(), and any other entry for itself
C28_Rank(names, a) == Cardinality({b \in names : StrLess(b, a)}) + 1

C28_Expansion(m, fromlist) ==
  UNION { IF fromlist[i] # n_star THEN {[i |-> i, j |-> 1, name |-> Join(m.name, fromlist[i])]}
          ELSE IF HasAll(m.origin)
          THEN {[i |-> i, j |-> j, name |-> Join(m.name, DunderAll(m.origin)[j])] :
                  j \in 1..Len(DunderAll(m.origin))}
          ELSE LET public == {a \in m.attrs : a[1] # "_"}
               IN {[i |-> i, j |-> C28_Rank(public, a), name |-> Join(m.name, a)] :
                     a \in public}
        : i \in 1..Len(fromlist) }

C28_Before(c, e) == c.i < e.i \/ (c.i = e.i /\ c.j < e.j)

\* the matching candidates that no matching candidate comes before
C28_FirstHits(k, m, fromlist) ==
  LET hits == {c \in C28_Expansion(m, fromlist) : is_fail_match(k, c.name)}
  IN {c \in hits : \A e \in hits : ~C28_Before(e, c)}

\* C28: a resolveMembers through an active session's wrapper raises the
\* configured exception exactly when some candidate of the expansion
\* matches a fail matcher, and the exception of a configured class carries
\* the full name of the first matching candidate in expansion order.
C28_FirstHitNamed ==
  \A k \in Workers :
    ThroughWrapper("resolveMembers", k) =>
      LET first == C28_FirstHits(k, last.mod, last.fromlist)
      IN /\ (last.exc.type = "Injected" /\ last.exc.by = k) <=> first # {}
         /\ (first # {} /\ cfg[k].fail_exception = "class") =>
              \E c \in first : last.exc.msg = c.name

\* several candidates matched, and the one named is not the first entry of
\* the from-list or the wildcard stood for an export list
C28_Witness ==
  \E k \in Workers :
    /\ ThroughWrapper("resolveMembers", k)
    /\ last.exc.type = "Injected"
    /\ last.exc.by = k
    /\ cfg[k].fail_exception = "class"
    /\ last.fromlist = <<n_star>>
    /\ HasAll(last.mod.origin)
    /\ Cardinality({c \in C28_Expansion(last.mod, last.fromlist) :
                      is_fail_match(k, c.name)}) > 1
    /\ last.exc.msg = Join(last.mod.name, DunderAll(last.mod.origin)[1])

\* C29: after a resolve(name) through an active session's wrapper that
\* returns normally, with or without substitution, the registry entry under
\* the requested name is the handle that the call returned.
C29_RegisteredUnderRequestedName ==
  \A k \in Workers :
    (ThroughWrapper("resolve", k) /\ last.exc.type = "none") =>
      /\ last.name \in DOMAIN sys_modules
      /\ sys_modules[last.name] = last.ret

\* a substituted name that was not registered, or was registered as another
\* module, is now registered as the module returned
C29_Witness ==
  \E k \in Workers :
    /\ ThroughWrapper("resolve", k)
    /\ last.exc.type = "none"
    /\ SubTarget(k, last.name) # last.name
    /\ last.name \in DOMAIN last.sm => last.sm[last.name] # last.ret
    /\ last.name \in DOMAIN sys_modules
    /\ sys_modules[last.name] = last.ret

\* the mapping whose target lies two levels below its own source
C30_TargetBelowSource ==
  Raw(<<>>, << <<Str(n_p), Str(n_pyt)>> >>, <<>>, "class", FALSE)

\* what holds: under every other rule set the nesting of hook invocations
\* inside one resolve stays below the depth at which the interpreter gives
\* up
TerminatesUnlessTargetBelowSource ==
  (last.op = "resolve" /\ last.exc.type = "RecursionError") =>
    \E k \in Workers : w_state[k] /\ args[k] = C30_TargetBelowSource

\* C30: resolve(name) terminates for every name, rule set and nesting depth
\* of sessions: the nesting of hook invocations inside one call is bounded,
\* so that no call ends because the nesting had no end.
C30_Terminates ==
  last.op = "resolve" => last.exc.type # "RecursionError"

\* the call just made was an unpatch() on a bound worker k whose state had
\* been removed from the list before
C31_Stale(k) ==
  /\ last.op = "unpatch"
  /\ last.w = k
  /\ last.bound
  /\ \A i \in 1..Len(last.stack) : last.stack[i] # k

\* C31: a deactivate() on a handle whose state an outer session's
\* deactivation has already reverted and removed raises nothing, returns
\* true, clears the handle's binding, and changes neither the stack, the
\* hooks nor the registry, even if other sessions were activated in
\* between.
C31_StaleHandleNoOp ==
  \A k \in Workers :
    C31_Stale(k) =>
      /\ last.exc.type = "none"
      /\ last.ret = 1
      /\ ~w_state[k]
      /\ states_list = last.stack
      /\ find_and_load = last.fal
      /\ handle_fromlist = last.hf
      /\ sys_modules = last.sm

\* the stale handle was unpatched while another session, activated in
\* between, was on the stack with its wrappers installed
C31_Witness ==
  \E k \in Workers :
    /\ C31_Stale(k)
    /\ last.ret = 1
    /\ last.stack # <<>>
    /\ last.fal # 0
    /\ find_and_load = last.fal

\* C32: after any sequence of patch()/unpatch() calls, strict or not, on
\* any handles in any order, every state in the list is active, no state is
\* in it twice, and the installed hooks are the wrappers of the session
\* whose state is last in the list, or the hooks installed before the first
\* activation when the list is empty.
C32_StackInvariant ==
  /\ \A i \in 1..Len(states_list) : st[states_list[i]].active
  /\ \A i, j \in 1..Len(states_list) : states_list[i] = states_list[j] => i = j
  /\ IF states_list = <<>>
     THEN find_and_load = 0 /\ handle_fromlist = 0
     ELSE /\ find_and_load = states_list[Len(states_list)]
          /\ handle_fromlist = states_list[Len(states_list)]

\* the outer of two nested sessions was deactivated first and both states
\* were reverted
C32_Witness ==
  /\ last.op = "unpatch"
  /\ last.ret = 1
  /\ Len(last.stack) = 2
  /\ last.w = last.stack[1]
  /\ Len(last.revlog) = 2
  /\ states_list = <<>>
  /\ find_and_load = 0

\* C33: after any sequence of patch()/unpatch() calls on handles,
\* BootstrapStates.unpatch calls and direct revert() calls on states in the
\* list, whenever the list is empty the installed hooks are the original
\* hooks: no wrapper of any session remains installed.
C33_NoLeakedWrapper ==
  states_list = <<>> => (find_and_load = 0 /\ handle_fromlist = 0)

C34_Listed(k) == \E i \in 1..Len(states_list) : states_list[i] = k

C35_IdentityKept ==
  \A k \in Workers :
    Deactivated(k) =>
      \A n \in DOMAIN pre[k].sm :
        <<mods[pre[k].sm[n]].name, mods[pre[k].sm[n]].specname>> = pre[k].ids[pre[k].sm[n]]

\* what holds: a session without substitution rules, alone from its
\* activation on, leaves the identity of the modules as it was
IdentityKeptWithoutSubstitution ==
  \A k \in Workers :
    (Deactivated(k) /\ solo[k] /\ cfg[k].sub_modules = <<>>) =>
      \A n \in DOMAIN pre[k].sm :
        <<mods[pre[k].sm[n]].name, mods[pre[k].sm[n]].specname>> = pre[k].ids[pre[k].sm[n]]

\* the step is a resolve through an installed wrapper that ends with the
\* exception configured for some session
C36_Case ==
  /\ nops' = nops + 1
  /\ last'.op = "resolve"
  /\ last'.hook # 0
  /\ last'.exc.type = "Injected"

\* C36: whenever resolve(name) through a session's wrapper ends with the
\* injected failure, also when it is raised while the alias parent of a
\* substituted name is resolved, the registry and the attributes of every
\* module are as they were before the call.
C36_NoFootprint ==
  [][C36_Case =>
       /\ sys_modules' = sys_modules
       /\ \A h \in 1..Len(mods) : mods'[h].attr = mods[h].attr]_vars

\* what holds: when the requested name itself matches a fail matcher of the
\* installed wrapper's session, nothing is changed
NoFootprintWhenNameFails ==
  [][(C36_Case /\ last'.exc.by = last'.hook /\ is_fail_match(last'.hook, last'.name)) =>
       /\ sys_modules' = sys_modules
       /\ mods' = mods]_vars

\* the step is a call of an installed hook
C37_Case ==
  /\ nops' = nops + 1
  /\ last'.op \in {"resolve", "resolveMembers"}

\* the line that worker k prints for the hook invocation e
C37_Names(line, e, k) ==
  /\ line.w = k
  /\ line.f = (IF e.f = "find_and_load" THEN "wrapper_find_and_load"
               ELSE "wrapper_handle_fromlist")
  /\ line.name = e.name
  /\ line.module = e.module
  /\ line.fromlist = e.fromlist
  /\ line.recursive = e.recursive

\* C37: a wrapper invoked while its session's debug flag is on prints
\* exactly one line, naming the hook and its arguments, before it does
\* anything else, also when the invocation then fails; a wrapper whose flag
\* is off prints nothing; the flag is the one the owner set last.
C37_DebugEvents ==
  [][C37_Case =>
       /\ \A j \in 1..Len(last'.out) :
            /\ cfg[last'.out[j].w].debug
            /\ last'.out[j].f \in {"wrapper_find_and_load", "wrapper_handle_fromlist"}
       /\ \A i \in 1..Len(last'.log) :
            (last'.log[i].h # 0 /\ cfg[last'.log[i].h].debug) =>
              /\ Cardinality({j \in 1..Len(last'.out) : last'.out[j].at = i}) = 1
              /\ \E j \in 1..Len(last'.out) :
                   last'.out[j].at = i /\ C37_Names(last'.out[j], last'.log[i], last'.log[i].h)]_vars

\* a resolve through the wrapper of a session whose flag is on failed with
\* the configured exception after printing its line, while the wrapper of
\* the other session, whose flag is off, was not heard
C37_Witness ==
  \E k \in Workers :
    /\ ThroughWrapper("resolve", k)
    /\ cfg[k].debug
    /\ last.exc.type = "Injected"
    /\ Len(last.out) = 1
    /\ last.out[1].w = k
    /\ last.out[1].name = last.name
====
